---- MODULE Spec2Model ----
(***************************************************************************)
(* A model of the JSON-RPC relay (src/main.py) and of its health monitor   *)
(* (src/health_monitor.py).                                                *)
(*                                                                         *)
(* Threads: Flask serves every request on a thread of its own              *)
(* (app.run(threaded=True), main.py:372) and the dashboard runs on a       *)
(* daemon thread (main.py:187).  The module globals of main.py and the     *)
(* fields of the one RPCStatusMonitor are shared by all of them without    *)
(* any lock.  A step of the model is a run of statements between two       *)
(* accesses to shared state at which CPython can switch threads.           *)
(*                                                                         *)
(* Time is time.time() in whole seconds.  Latencies are kept in            *)
(* milliseconds (the code keeps seconds and multiplies by 1000 where it    *)
(* compares with latency_threshold_ms, main.py:301).                       *)
(*                                                                         *)
(* Python objects that are shared by reference are kept in heaps: the      *)
(* endpoint dicts in objs, their deques in deques, the response dicts the  *)
(* cache holds in robjs.  A reference is an index into the heap.           *)
(***************************************************************************)
EXTENDS Integers, Sequences, FiniteSets, TLC

\* ------------------------------------------------------------------ bounds
\* time.time() when the process starts (the throttles start from 0.0).
StartTime == 100
\* Requests accepted over a run, over all handler threads.
MaxReqs == 2
\* The same, in the runs that start with the process.
ColdReqs == 1
\* Edits of config.yaml over a run.
MaxEdits == 2
\* Seconds the clock may advance in the short-horizon specifications.
ShortHorizon == 1
\* Seconds the clock may advance in the long-horizon specifications.
LongHorizon == 60
\* Cycles of the dashboard loop over a run.
MaxDashLoops == 1
\* Probes that fail over a run (each one increments an errors counter).
MaxProbeFailures == 1

\* ------------------------------------------------------- program constants
ReloadThrottle == 30
MonReloadThrottle == 30
DefaultMonitorInterval == 5
DefaultWeight == 1
DefaultMaxTps == 0
DefaultMaxBehind == 6
TpsWindow == 1
PruneWindow == 60

\* A key that config.yaml does not give (dict.get then returns the default).
Absent == 0 - 1
\* float('inf')
Inf == 0 - 2

\* ------------------------------------------------------------ JSON values
JStr(s) == [t |-> "str", s |-> s, items |-> <<>>, kv |-> <<>>]
JList(items) == [t |-> "list", s |-> "", items |-> items, kv |-> <<>>]
JObj(kv) == [t |-> "obj", s |-> "", items |-> <<>>, kv |-> kv]
JNull == [t |-> "null", s |-> "", items |-> <<>>, kv |-> <<>>]

\* The order of the object keys the model uses (the order of str in Python).
KeyRank(k) ==
  CASE k = "from" -> 1
    [] k = "nonce" -> 2
    [] k = "to" -> 3
    [] OTHER -> 4

RECURSIVE InsertByKey(_, _)
InsertByKey(pair, sorted) ==
  IF sorted = <<>> THEN <<pair>>
  ELSE IF KeyRank(pair[1]) < KeyRank(Head(sorted)[1])
       THEN <<pair>> \o sorted
       ELSE <<Head(sorted)>> \o InsertByKey(pair, Tail(sorted))

RECURSIVE SortByKey(_)
SortByKey(kv) ==
  IF kv = <<>> THEN <<>> ELSE InsertByKey(Head(kv), SortByKey(Tail(kv)))

\* json.dumps(v, sort_keys=True): the text of v with the keys of every object
\* in sorted order.  The text is kept as the value tree it denotes.
RECURSIVE json_dumps(_)
json_dumps(v) ==
  CASE v.t = "list" ->
         JList([i \in 1..Len(v.items) |-> json_dumps(v.items[i])])
    [] v.t = "obj" ->
         LET s == SortByKey(v.kv)
         IN JObj([i \in 1..Len(s) |-> <<s[i][1], json_dumps(s[i][2])>>])
    [] OTHER -> v

\* ----------------------------------------------------------- configuration
Ep(u, w, m) == [url |-> u, weight |-> w, max_tps |-> m]

NoTtl == [m \in {} |-> 0]

Cfg(prim, sec, interval, threshold, ttl, behind) ==
  [primary |-> prim, secondary |-> sec, monitor_interval |-> interval,
   latency_threshold_ms |-> threshold, cache_ttl |-> ttl,
   max_blocks_behind |-> behind]

\* ep.get('weight', 1), ep.get('max_tps', 0), and the other defaults.
WeightOf(ep) == IF ep.weight = Absent THEN DefaultWeight ELSE ep.weight
MaxTpsOf(ep) == IF ep.max_tps = Absent THEN DefaultMaxTps ELSE ep.max_tps
MonitorInterval(cfg) ==
  IF cfg.monitor_interval = Absent THEN DefaultMonitorInterval
  ELSE cfg.monitor_interval

Endpoints(cfg) == cfg.primary \o cfg.secondary
UrlsOf(eps) == {eps[i].url : i \in 1..Len(eps)}

\* build_url_weights: a later entry of a URL overwrites an earlier one.
build_url_weights(cfg) ==
  LET eps == Endpoints(cfg)
      last(u) == CHOOSE i \in 1..Len(eps) :
                   /\ eps[i].url = u
                   /\ \A j \in 1..Len(eps) : eps[j].url = u => j <= i
  IN [u \in UrlsOf(eps) |-> WeightOf(eps[last(u)])]

\* ------------------------------------------------------- order with infinity
LtInf(a, b) == IF a = Inf THEN FALSE ELSE IF b = Inf THEN TRUE ELSE a < b


\* ------------------------------------------------------------------- state
Threads == {"h1", "h2", "h3", "dash"}
Dash == "dash"

VARIABLES
  now,                    \* time.time()
  file,                   \* config.yaml on disk: [ok, cfg]; ~ok: open or parse fails
  edits,                  \* edits of config.yaml so far
  config,                 \* main.config
  last_config_snapshot,   \* main._last_config_snapshot
  url_weights,            \* main.url_weights
  cache_ttl,              \* main.cache_ttl
  last_config_file_check, \* main._last_config_file_check
  last_status_time,       \* main._last_status_time
  cache,                  \* main._cache: key -> [time, response], response a reference into robjs
  robjs,                  \* the response dicts the cache entries hold
  lb_index,               \* relay._lb_index
  mon_config,             \* monitor.config
  mon_snapshot,           \* monitor._last_config_snapshot
  last_reload_time,       \* monitor._last_reload_time
  max_behind,             \* monitor.max_behind
  rpcs,                   \* monitor.rpcs: the list of references into objs
  objs,                   \* the endpoint dicts
  deques,                 \* the timestamps deques
  total_calls,            \* monitor.total_calls
  cached_calls,           \* monitor.cached_calls
  pc,                     \* where each thread is
  req,                    \* the request a handler thread serves
  resp,                   \* the response it returns
  hl,                     \* the locals of relay and reload_config_if_changed, per thread
  us,                     \* the locals of update_statuses and _reload_config, per thread
  nreqs,                  \* requests accepted so far
  dash_interval,          \* terminal_dashboard's local interval
  dash_wake,              \* when its time.sleep returns
  dash_loops,             \* turns of its loop so far
  probe_failures,         \* probes that failed so far
  g_reads,                \* history: the times of the last two reads of config.yaml
  g_runs,                 \* history: the times the last two runs of update_statuses started
  g_sel,                  \* history: the selections made, in order
  g_store,                \* history: per cache key, the last store
  g_pre,                  \* history: per thread, the endpoint dicts when its run of update_statuses started
  g_out                   \* history: per thread, the outbound calls of its request so far


vars == <<now, file, edits, config, last_config_snapshot, url_weights, cache_ttl,
          last_config_file_check, last_status_time, cache, robjs, lb_index,
          mon_config, mon_snapshot, last_reload_time, max_behind, rpcs, objs,
          deques, total_calls, cached_calls, pc, req, resp, hl, us, nreqs,
          dash_interval, dash_wake, dash_loops, probe_failures,
          g_reads, g_runs, g_sel, g_store, g_pre, g_out>>

\* ------------------------------------------------------- the endpoint table
NewRpc(ep, dq) ==
  [url |-> ep.url, max_tps |-> MaxTpsOf(ep), healthy |-> TRUE, behind |-> 0,
   latest_block |-> 0, latency |-> Inf, errors |-> 0, call_count |-> 0,
   timestamps |-> dq]

\* _build_initial_rpc_list: a fresh dict with a fresh deque for every endpoint
\* of cfg, primary first.  Gives the heaps and the new list.
build_initial_rpc_list(cfg, objs0, deques0) ==
  LET eps == Endpoints(cfg)
      n == Len(eps)
  IN [objs |-> objs0 \o [i \in 1..n |-> NewRpc(eps[i], Len(deques0) + i)],
      deques |-> deques0 \o [i \in 1..n |-> <<>>],
      rpcs |-> [i \in 1..n |-> Len(objs0) + i]]

TableUrls(lst, os) == {os[lst[i]].url : i \in 1..Len(lst)}

\* The dict of the last entry of lst with this URL (a dict comprehension keeps
\* the last value of a repeated key).
LastWithUrl(lst, os, u) ==
  LET i == CHOOSE i \in 1..Len(lst) :
             /\ os[lst[i]].url = u
             /\ \A j \in 1..Len(lst) : os[lst[j]].url = u => j <= i
  IN os[lst[i]]

\* The value of the last endpoint of cfg with this URL.
IncomingMaxTps(cfg, u) ==
  LET eps == Endpoints(cfg)
      i == CHOOSE i \in 1..Len(eps) :
             /\ eps[i].url = u
             /\ \A j \in 1..Len(eps) : eps[j].url = u => j <= i
  IN MaxTpsOf(eps[i])

\* A variant that rebuilds without restoring: C14 does not hold of it.
reload_table_fresh(cfg, lst, os, ds) ==
  IF UrlsOf(Endpoints(cfg)) # TableUrls(lst, os)
  THEN build_initial_rpc_list(cfg, os, ds)
  ELSE [objs |-> [i \in 1..Len(os) |->
                    IF \E j \in 1..Len(lst) : lst[j] = i
                    THEN [os[i] EXCEPT !.max_tps = IncomingMaxTps(cfg, os[i].url)]
                    ELSE os[i]],
        deques |-> ds,
        rpcs |-> lst]

\* _reload_config, lines 111-143: rebuild the list when the URL set changed,
\* keeping call_count, timestamps and latest_block of the URLs that stay;
\* otherwise set max_tps in place.
reload_table(cfg, lst, os, ds) ==
  IF UrlsOf(Endpoints(cfg)) # TableUrls(lst, os)
  THEN LET b == build_initial_rpc_list(cfg, os, ds)
           restore(o) ==
             IF o.url \in TableUrls(lst, os)
             THEN LET old == LastWithUrl(lst, os, o.url)
                  IN [o EXCEPT !.call_count = old.call_count,
                               !.timestamps = old.timestamps,
                               !.latest_block = old.latest_block]
             ELSE o
       IN [objs |-> [i \in 1..Len(b.objs) |->
                       IF i > Len(os) THEN restore(b.objs[i]) ELSE b.objs[i]],
           deques |-> b.deques,
           rpcs |-> b.rpcs]
  ELSE [objs |-> [i \in 1..Len(os) |->
                    IF \E j \in 1..Len(lst) : lst[j] = i
                    THEN [os[i] EXCEPT !.max_tps = IncomingMaxTps(cfg, os[i].url)]
                    ELSE os[i]],
        deques |-> ds,
        rpcs |-> lst]

\* sorted(healthy_list, key=(behind, latency)): a stable insertion sort.
KeyLess(a, b) ==
  \/ LtInf(a.behind, b.behind)
  \/ a.behind = b.behind /\ LtInf(a.latency, b.latency)

\* Stable: an element goes after the equal ones already placed, and the
\* elements are placed in list order.
RECURSIVE InsertStable(_, _, _)
InsertStable(id, sorted, os) ==
  IF sorted = <<>> THEN <<id>>
  ELSE IF KeyLess(os[id], os[Head(sorted)])
       THEN <<id>> \o sorted
       ELSE <<Head(sorted)>> \o InsertStable(id, Tail(sorted), os)

RECURSIVE StableSort(_, _, _)
StableSort(lst, acc, os) ==
  IF lst = <<>> THEN acc
  ELSE StableSort(Tail(lst), InsertStable(Head(lst), acc, os), os)

\* A variant that takes every endpoint for healthy: C12 does not hold of it.
get_healthy_rpcs_all(lst, os) == StableSort(lst, <<>>, os)

get_healthy_rpcs(lst, os) ==
  StableSort(SelectSeq(lst, LAMBDA id : os[id].healthy), <<>>, os)


\* ------------------------------------------------------ requests, responses
JAbsent == [t |-> "absent", s |-> "", items |-> <<>>, kv |-> <<>>]
Req(kind, method, params, id) ==
  [kind |-> kind, method |-> method, params |-> params, id |-> id]
NoReq == Req("", "", JAbsent, Absent)
\* data.get("params", []) and data.get("id", 0)
ReqParams(r) == IF r.params.t = "absent" THEN JList(<<>>) ELSE r.params
ReqId(r) == IF r.id = Absent THEN 0 ELSE r.id

\* A JSON-RPC response body: error is the error code, 0 when there is none.
Body(id, result, error) == [id |-> id, result |-> result, error |-> error]
NoBody == Body(0, "", 0)
Resp(status, body) == [status |-> status, body |-> body]
NoResp == Resp(0, NoBody)

EmptyCfg == Cfg(<<>>, <<>>, Absent, Absent, NoTtl, Absent)
NoBlocks == [u \in {} |-> 0]

HL0 ==
  [now_l |-> 0, new_cfg |-> EmptyCfg, params |-> JAbsent, entry |-> 0,
   available |-> <<>>, selected |-> 0, selected_url |-> "", idx |-> 0,
   stamp |-> 0, upstream |-> NoBody, uref |-> 0]

US0 ==
  [lst |-> <<>>, i |-> 0, temp_blocks |-> NoBlocks, block_numbers |-> <<>>,
   max_block |-> 0, now_l |-> 0, new_cfg |-> EmptyCfg]

\* -------------------------------------------------------------------- Init
\* The state when main.py has been imported with cfg in config.yaml: lines
\* 25-77 have run and the dashboard thread is about to start its function.
InitWith(cfg) ==
  LET b == build_initial_rpc_list(cfg, <<>>, <<>>)
  IN /\ now = StartTime
     /\ file = [ok |-> TRUE, cfg |-> cfg]
     /\ edits = 0
     /\ config = cfg
     /\ last_config_snapshot = cfg
     /\ url_weights = build_url_weights(cfg)
     /\ cache_ttl = cfg.cache_ttl
     /\ last_config_file_check = 0
     /\ last_status_time = 0
     /\ cache = [k \in {} |-> 0]
     /\ robjs = <<>>
     /\ lb_index = 0
     /\ mon_config = cfg
     /\ mon_snapshot = cfg
     /\ last_reload_time = 0
     /\ max_behind = IF cfg.max_blocks_behind = Absent THEN DefaultMaxBehind
                     ELSE cfg.max_blocks_behind
     /\ rpcs = b.rpcs
     /\ objs = b.objs
     /\ deques = b.deques
     /\ total_calls = 0
     /\ cached_calls = 0
     /\ pc = [t \in Threads |-> IF t = Dash THEN "dash_start" ELSE "idle"]
     /\ req = [t \in Threads |-> NoReq]
     /\ resp = [t \in Threads |-> NoResp]
     /\ hl = [t \in Threads |-> HL0]
     /\ us = [t \in Threads |-> US0]
     /\ nreqs = 0
     /\ dash_interval = 0
     /\ dash_wake = 0
     /\ dash_loops = 0
     /\ probe_failures = 0
     /\ g_reads = <<Absent, Absent>>
     /\ g_runs = <<Absent, Absent>>
     /\ g_sel = <<>>
     /\ g_store = [k \in {} |-> 0]
     /\ g_pre = [t \in Threads |-> <<>>]
     /\ g_out = [t \in Threads |-> <<>>]

\* ------------------------------------------------------------ environment
\* The clock advances by d seconds, within the horizon h of the run.
Tick(d, h) ==
  /\ now + d <= StartTime + h
  /\ now' = now + d
  /\ UNCHANGED <<file, edits, config, last_config_snapshot, url_weights,
                 cache_ttl, last_config_file_check, last_status_time, cache,
                 robjs, lb_index, mon_config, mon_snapshot, last_reload_time,
                 max_behind, rpcs, objs, deques, total_calls, cached_calls,
                 pc, req, resp, hl, us, nreqs, dash_interval, dash_wake,
                 dash_loops, probe_failures, g_reads, g_runs, g_sel, g_store,
                 g_pre,
                 g_out>>

\* Somebody writes config.yaml: a new configuration, or one that cannot be
\* parsed.
EditFile(f) ==
  /\ edits < MaxEdits
  /\ f # file
  /\ file' = f
  /\ edits' = edits + 1
  /\ UNCHANGED <<now, config, last_config_snapshot, url_weights,
                 cache_ttl, last_config_file_check, last_status_time, cache,
                 robjs, lb_index, mon_config, mon_snapshot, last_reload_time,
                 max_behind, rpcs, objs, deques, total_calls, cached_calls,
                 pc, req, resp, hl, us, nreqs, dash_interval, dash_wake,
                 dash_loops, probe_failures, g_reads, g_runs, g_sel, g_store,
                 g_pre,
                 g_out>>

\* ------------------------------------------- reload_config_if_changed (main)
\* Where reload_config_if_changed returns to: terminal_dashboard line 136,
\* status line 199, relay line 222.
RcReturn(t) ==
  IF t = Dash THEN "mr_check"
  ELSE IF req[t].kind = "status" THEN "status_ret" ELSE "throttle"

\* g_runs when a run of update_statuses starts now.
RunStarts(to) == IF to = "mr_check" THEN <<g_runs[2], now>> ELSE g_runs

\* Lines 87-89: the throttle.
RcCheck(t) ==
  /\ pc[t] = "rc_check"
  /\ IF now - last_config_file_check < ReloadThrottle
     THEN /\ pc' = [pc EXCEPT ![t] = RcReturn(t)]
          /\ g_runs' = RunStarts(RcReturn(t))
          /\ hl' = hl
     ELSE /\ pc' = [pc EXCEPT ![t] = "rc_read"]
          /\ g_runs' = g_runs
          /\ hl' = [hl EXCEPT ![t].now_l = now]
  /\ UNCHANGED <<now, file, edits, config, last_config_snapshot, url_weights,
                 cache_ttl, last_config_file_check, last_status_time, cache,
                 robjs, lb_index, mon_config, mon_snapshot, last_reload_time,
                 max_behind, rpcs, objs, deques, total_calls, cached_calls,
                 req, resp, us, nreqs, dash_interval, dash_wake,
                 dash_loops, probe_failures, g_reads, g_sel, g_store,
                 g_pre,
                 g_out>>

\* A variant that takes a file it cannot read for an empty configuration:
\* C20 does not hold of it.
read_config_empty_on_error(f) ==
  [ok |-> TRUE, cfg |-> IF f.ok THEN f.cfg ELSE EmptyCfg]

\* yaml.safe_load(open(CONFIG_PATH)) inside try/except: the configuration, or
\* the failure that makes the caller return.
read_config(f) == [ok |-> f.ok, cfg |-> f.cfg]

\* Lines 90-95: note the check, then open and parse config.yaml.
RcRead(t) ==
  /\ pc[t] = "rc_read"
  /\ last_config_file_check' = hl[t].now_l
  /\ g_reads' = <<g_reads[2], now>>
  /\ IF read_config(file).ok
     THEN /\ hl' = [hl EXCEPT ![t].new_cfg = read_config(file).cfg]
          /\ pc' = [pc EXCEPT ![t] = "rc_apply"]
          /\ g_runs' = g_runs
     ELSE /\ hl' = hl
          /\ pc' = [pc EXCEPT ![t] = RcReturn(t)]
          /\ g_runs' = RunStarts(RcReturn(t))
  /\ UNCHANGED <<now, file, edits, config, last_config_snapshot, url_weights,
                 cache_ttl, last_status_time, cache,
                 robjs, lb_index, mon_config, mon_snapshot, last_reload_time,
                 max_behind, rpcs, objs, deques, total_calls, cached_calls,
                 req, resp, us, nreqs, dash_interval, dash_wake,
                 dash_loops, probe_failures, g_sel, g_store,
                 g_pre,
                 g_out>>

\* g_store when _cache.clear() runs: every store is marked cleared.
MarkCleared(gs) == [k \in DOMAIN gs |-> [gs[k] EXCEPT !.cleared = TRUE]]

\* A variant that keeps the cache whatever cache_ttl is: C19 does not hold
\* of it.
cache_after_reload_keep(c, ttl) == c

\* Lines 109-111: the cache once cache_ttl is ttl; _cache.clear() when ttl is
\* empty or missing.
cache_after_reload(c, ttl) == IF DOMAIN ttl = {} THEN [k \in {} |-> 0] ELSE c

\* Lines 97-111: swap in a configuration that differs from the snapshot.
RcApply(t) ==
  /\ pc[t] = "rc_apply"
  /\ LET new_cfg == hl[t].new_cfg
     IN IF new_cfg # last_config_snapshot
        THEN /\ config' = new_cfg
             /\ last_config_snapshot' = new_cfg
             /\ url_weights' = build_url_weights(new_cfg)
             /\ mon_config' = new_cfg
             /\ cache_ttl' = new_cfg.cache_ttl
             /\ cache' = cache_after_reload(cache, new_cfg.cache_ttl)
             /\ g_store' = IF DOMAIN new_cfg.cache_ttl = {}
                           THEN MarkCleared(g_store) ELSE g_store
        ELSE UNCHANGED <<config, last_config_snapshot, url_weights,
                         mon_config, cache_ttl, cache, g_store>>
  /\ pc' = [pc EXCEPT ![t] = RcReturn(t)]
  /\ g_runs' = RunStarts(RcReturn(t))
  /\ hl' = [hl EXCEPT ![t].new_cfg = EmptyCfg]
  /\ UNCHANGED <<now, file, edits, last_config_file_check, last_status_time,
                 robjs, lb_index, mon_snapshot, last_reload_time,
                 max_behind, rpcs, objs, deques, total_calls, cached_calls,
                 req, resp, us, nreqs, dash_interval, dash_wake,
                 dash_loops, probe_failures, g_reads, g_sel, g_pre,
                 g_out>>


\* ------------------------------------------------ RPCStatusMonitor (monitor)
\* Where update_statuses returns to: terminal_dashboard line 139, relay
\* line 230.
UsReturn(t) == IF t = Dash THEN "render" ELSE "post_status"

\* update_statuses line 162: the loop over self.rpcs starts, on the list
\* that self.rpcs is now.
ProbeLocals(lst) ==
  [lst |-> lst, i |-> 1, temp_blocks |-> NoBlocks, block_numbers |-> <<>>,
   max_block |-> 0, now_l |-> 0, new_cfg |-> EmptyCfg]

\* _reload_config lines 86-95: the throttle, then open and parse config.yaml.
\* A file that cannot be read leaves _last_reload_time as it is.
MrCheck(t) ==
  /\ pc[t] = "mr_check"
  /\ IF now - last_reload_time < MonReloadThrottle
     THEN /\ g_reads' = g_reads
          /\ us' = [us EXCEPT ![t] = ProbeLocals(rpcs)]
          /\ g_pre' = [g_pre EXCEPT ![t] = objs]
          /\ pc' = [pc EXCEPT ![t] = IF Len(rpcs) = 0 THEN UsReturn(t) ELSE "probe"]
     ELSE /\ g_reads' = <<g_reads[2], now>>
          /\ IF read_config(file).ok
             THEN /\ us' = [us EXCEPT ![t].new_cfg = read_config(file).cfg,
                                      ![t].now_l = now]
                  /\ g_pre' = g_pre
                  /\ pc' = [pc EXCEPT ![t] = "mr_apply"]
             ELSE /\ us' = [us EXCEPT ![t] = ProbeLocals(rpcs)]
                  /\ g_pre' = [g_pre EXCEPT ![t] = objs]
                  /\ pc' = [pc EXCEPT ![t] =
                              IF Len(rpcs) = 0 THEN UsReturn(t) ELSE "probe"]
  /\ UNCHANGED <<now, file, edits, config, last_config_snapshot, url_weights,
                 cache_ttl, last_config_file_check, last_status_time, cache,
                 robjs, lb_index, mon_config, mon_snapshot, last_reload_time,
                 max_behind, rpcs, objs, deques, total_calls, cached_calls,
                 req, resp, hl, nreqs, dash_interval, dash_wake,
                 dash_loops, probe_failures, g_runs, g_sel, g_store,
                 g_out>>

\* _reload_config lines 97-145: take a configuration that differs from the
\* monitor's snapshot, and note the time of the reload.
MrApply(t) ==
  /\ pc[t] = "mr_apply"
  /\ LET new_cfg == us[t].new_cfg
         tbl == IF new_cfg # mon_snapshot
                THEN reload_table(new_cfg, rpcs, objs, deques)
                ELSE [objs |-> objs, deques |-> deques, rpcs |-> rpcs]
     IN /\ IF new_cfg # mon_snapshot
           THEN /\ mon_config' = new_cfg
                /\ mon_snapshot' = new_cfg
                /\ max_behind' = IF new_cfg.max_blocks_behind = Absent
                                 THEN max_behind
                                 ELSE new_cfg.max_blocks_behind
           ELSE UNCHANGED <<mon_config, mon_snapshot, max_behind>>
        /\ objs' = tbl.objs
        /\ deques' = tbl.deques
        /\ rpcs' = tbl.rpcs
        /\ us' = [us EXCEPT ![t] = ProbeLocals(tbl.rpcs)]
        /\ g_pre' = [g_pre EXCEPT ![t] = tbl.objs]
        /\ pc' = [pc EXCEPT ![t] =
                    IF Len(tbl.rpcs) = 0 THEN UsReturn(t) ELSE "probe"]
  /\ last_reload_time' = us[t].now_l
  /\ UNCHANGED <<now, file, edits, config, last_config_snapshot, url_weights,
                 cache_ttl, last_config_file_check, last_status_time, cache,
                 robjs, lb_index, total_calls, cached_calls,
                 req, resp, hl, nreqs, dash_interval, dash_wake,
                 dash_loops, probe_failures, g_reads, g_runs, g_sel, g_store,
                 g_out>>

\* A probe's outcome: eth_blockNumber answered with block after latency
\* milliseconds, or failed.
Probe(ok, block, latency) == [ok |-> ok, block |-> block, latency |-> latency]

MaxOf(seq) ==
  IF seq = <<>> THEN 0
  ELSE CHOOSE m \in {seq[i] : i \in 1..Len(seq)} :
         \A i \in 1..Len(seq) : seq[i] <= m

\* update_statuses lines 162-183: probe the next endpoint of the list and
\* write what the probe gave into its dict; after the last one, max_block.
UsProbe(t, o) ==
  /\ pc[t] = "probe"
  /\ o.ok \/ probe_failures < MaxProbeFailures
  /\ LET id == us[t].lst[us[t].i]
         url == objs[id].url
         tb == IF o.ok
               THEN [u \in DOMAIN us[t].temp_blocks \cup {url} |->
                       IF u = url THEN o.block ELSE us[t].temp_blocks[u]]
               ELSE us[t].temp_blocks
         bn == IF o.ok THEN Append(us[t].block_numbers, o.block)
               ELSE us[t].block_numbers
         last == us[t].i = Len(us[t].lst)
     IN /\ objs' = IF o.ok
                   THEN [objs EXCEPT ![id].healthy = TRUE,
                                     ![id].latency = o.latency,
                                     ![id].errors = 0,
                                     ![id].latest_block = o.block]
                   ELSE [objs EXCEPT ![id].healthy = FALSE,
                                     ![id].latency = Inf,
                                     ![id].behind = Inf,
                                     ![id].errors = @ + 1]
        /\ probe_failures' = IF o.ok THEN probe_failures ELSE probe_failures + 1
        /\ us' = IF last
                 THEN [us EXCEPT ![t].temp_blocks = tb, ![t].block_numbers = bn,
                                 ![t].max_block = MaxOf(bn),
                                 ![t].lst = rpcs, ![t].i = 1]
                 ELSE [us EXCEPT ![t].temp_blocks = tb, ![t].block_numbers = bn,
                                 ![t].i = @ + 1]
        /\ pc' = [pc EXCEPT ![t] =
                    IF last
                    THEN (IF Len(rpcs) = 0 THEN UsReturn(t) ELSE "classify")
                    ELSE "probe"]
        /\ g_pre' = IF last /\ Len(rpcs) = 0
                    THEN [g_pre EXCEPT ![t] = <<>>] ELSE g_pre
  /\ UNCHANGED <<now, file, edits, config, last_config_snapshot, url_weights,
                 cache_ttl, last_config_file_check, last_status_time, cache,
                 robjs, lb_index, mon_config, mon_snapshot, last_reload_time,
                 max_behind, rpcs, deques, total_calls, cached_calls,
                 req, resp, hl, nreqs, dash_interval, dash_wake,
                 dash_loops, g_reads, g_runs, g_sel, g_store,
                 g_out>>

\* temp_blocks.get(url, 0)
TempBlock(tb, url) == IF url \in DOMAIN tb THEN tb[url] ELSE 0

\* update_statuses lines 186-195, for one dict: behind, and the demotion of
\* an endpoint that is too far behind.
classify(o, tb, max_block, maxb) ==
  IF o.healthy
  THEN LET behind == max_block - TempBlock(tb, o.url)
       IN IF behind > maxb
          THEN [o EXCEPT !.healthy = FALSE, !.behind = Inf]
          ELSE [o EXCEPT !.behind = behind]
  ELSE o

\* update_statuses lines 186-195: the next endpoint of the second loop.
UsClassify(t) ==
  /\ pc[t] = "classify"
  /\ LET id == us[t].lst[us[t].i]
         last == us[t].i = Len(us[t].lst)
     IN /\ objs' = [objs EXCEPT ![id] =
                      classify(objs[id], us[t].temp_blocks, us[t].max_block,
                               max_behind)]
        /\ us' = IF last THEN [us EXCEPT ![t] = US0]
                 ELSE [us EXCEPT ![t].i = @ + 1]
        /\ pc' = [pc EXCEPT ![t] = IF last THEN UsReturn(t) ELSE "classify"]
        /\ g_pre' = IF last THEN [g_pre EXCEPT ![t] = <<>>] ELSE g_pre
  /\ UNCHANGED <<now, file, edits, config, last_config_snapshot, url_weights,
                 cache_ttl, last_config_file_check, last_status_time, cache,
                 robjs, lb_index, mon_config, mon_snapshot, last_reload_time,
                 max_behind, rpcs, deques, total_calls, cached_calls,
                 req, resp, hl, nreqs, dash_interval, dash_wake,
                 dash_loops, probe_failures, g_reads, g_runs, g_sel, g_store,
                 g_out>>

\* ------------------------------------------------------ terminal_dashboard
\* Line 122: interval is read once, when the thread starts.
DashStart ==
  /\ pc[Dash] = "dash_start"
  /\ dash_interval' = MonitorInterval(config)
  /\ pc' = [pc EXCEPT ![Dash] = "rc_check"]
  /\ UNCHANGED <<now, file, edits, config, last_config_snapshot, url_weights,
                 cache_ttl, last_config_file_check, last_status_time, cache,
                 robjs, lb_index, mon_config, mon_snapshot, last_reload_time,
                 max_behind, rpcs, objs, deques, total_calls, cached_calls,
                 req, resp, hl, us, nreqs, dash_wake, dash_loops,
                 probe_failures, g_reads, g_runs, g_sel, g_store, g_pre,
                 g_out>>

\* Lines 139-184: the banner and the table are drawn from the monitor's
\* state, which is only read; then time.sleep(interval).
DashRender ==
  /\ pc[Dash] = "render"
  /\ dash_wake' = now + dash_interval
  /\ pc' = [pc EXCEPT ![Dash] = "dash_sleep"]
  /\ UNCHANGED <<now, file, edits, config, last_config_snapshot, url_weights,
                 cache_ttl, last_config_file_check, last_status_time, cache,
                 robjs, lb_index, mon_config, mon_snapshot, last_reload_time,
                 max_behind, rpcs, objs, deques, total_calls, cached_calls,
                 req, resp, hl, us, nreqs, dash_interval, dash_loops,
                 probe_failures, g_reads, g_runs, g_sel, g_store, g_pre,
                 g_out>>

\* time.sleep returns and the loop takes its next turn.
DashWake ==
  /\ pc[Dash] = "dash_sleep"
  /\ now >= dash_wake
  /\ dash_loops < MaxDashLoops
  /\ dash_loops' = dash_loops + 1
  /\ pc' = [pc EXCEPT ![Dash] = "rc_check"]
  /\ UNCHANGED <<now, file, edits, config, last_config_snapshot, url_weights,
                 cache_ttl, last_config_file_check, last_status_time, cache,
                 robjs, lb_index, mon_config, mon_snapshot, last_reload_time,
                 max_behind, rpcs, objs, deques, total_calls, cached_calls,
                 req, resp, hl, us, nreqs, dash_interval, dash_wake,
                 probe_failures, g_reads, g_runs, g_sel, g_store, g_pre,
                 g_out>>


\* ------------------------------------------------------------------ relay
\* A request arrives and Flask gives it to the idle thread t.
StartRequest(t, r, max) ==
  /\ pc[t] = "idle"
  /\ nreqs < max
  /\ req' = [req EXCEPT ![t] = r]
  /\ nreqs' = nreqs + 1
  /\ pc' = [pc EXCEPT ![t] = "rc_check"]
  /\ UNCHANGED <<now, file, edits, config, last_config_snapshot, url_weights,
                 cache_ttl, last_config_file_check, last_status_time, cache,
                 robjs, lb_index, mon_config, mon_snapshot, last_reload_time,
                 max_behind, rpcs, objs, deques, total_calls, cached_calls,
                 resp, hl, us, dash_interval, dash_wake, dash_loops,
                 probe_failures, g_reads, g_runs, g_sel, g_store, g_pre,
                 g_out>>

\* status, line 199: jsonify({"rpcs": monitor.rpcs}).  Every endpoint dict
\* holds a deque, which jsonify cannot serialize: the view raises and Flask
\* answers 500 unless the list is empty.
HStatusRet(t) ==
  /\ pc[t] = "status_ret"
  /\ resp' = [resp EXCEPT ![t] =
                Resp(IF Len(rpcs) = 0 THEN 200 ELSE 500, NoBody)]
  /\ pc' = [pc EXCEPT ![t] = "done"]
  /\ UNCHANGED <<now, file, edits, config, last_config_snapshot, url_weights,
                 cache_ttl, last_config_file_check, last_status_time, cache,
                 robjs, lb_index, mon_config, mon_snapshot, last_reload_time,
                 max_behind, rpcs, objs, deques, total_calls, cached_calls,
                 req, hl, us, nreqs, dash_interval, dash_wake, dash_loops,
                 probe_failures, g_reads, g_runs, g_sel, g_store, g_pre,
                 g_out>>

\* Lines 223-225: is a run of update_statuses due?
HThrottle(t) ==
  /\ pc[t] = "throttle"
  /\ hl' = [hl EXCEPT ![t].now_l = now]
  /\ IF now - last_status_time >= MonitorInterval(config)
     THEN /\ pc' = [pc EXCEPT ![t] = "mr_check"]
          /\ g_runs' = <<g_runs[2], now>>
     ELSE /\ pc' = [pc EXCEPT ![t] = "lookup"]
          /\ g_runs' = g_runs
  /\ UNCHANGED <<now, file, edits, config, last_config_snapshot, url_weights,
                 cache_ttl, last_config_file_check, last_status_time, cache,
                 robjs, lb_index, mon_config, mon_snapshot, last_reload_time,
                 max_behind, rpcs, objs, deques, total_calls, cached_calls,
                 req, resp, us, nreqs, dash_interval, dash_wake, dash_loops,
                 probe_failures, g_reads, g_sel, g_store, g_pre,
                 g_out>>

\* Line 230: the run is over; note the time read at line 223.
HPostStatus(t) ==
  /\ pc[t] = "post_status"
  /\ last_status_time' = hl[t].now_l
  /\ pc' = [pc EXCEPT ![t] = "lookup"]
  /\ UNCHANGED <<now, file, edits, config, last_config_snapshot, url_weights,
                 cache_ttl, last_config_file_check, cache,
                 robjs, lb_index, mon_config, mon_snapshot, last_reload_time,
                 max_behind, rpcs, objs, deques, total_calls, cached_calls,
                 req, resp, hl, us, nreqs, dash_interval, dash_wake,
                 dash_loops, probe_failures, g_reads, g_runs, g_sel, g_store,
                 g_pre,
                 g_out>>

\* A variant that keeps the elements after the second: C21 does not hold of
\* it.
force_pending_keep_rest(method, params) ==
  IF method = "eth_getTransactionCount" /\ params.t = "list"
     /\ Len(params.items) >= 1
  THEN JList(<<params.items[1], JStr("pending")>>
             \o SubSeq(params.items, 3, Len(params.items)))
  ELSE params

\* Lines 237-238: eth_getTransactionCount is asked for "pending".
force_pending(method, params) ==
  IF method = "eth_getTransactionCount" /\ params.t = "list"
     /\ Len(params.items) >= 1
  THEN JList(<<params.items[1], JStr("pending")>>)
  ELSE params

CacheKey(method, params) == <<method, json_dumps(params)>>

\* A variant that serves an entry at the very end of its TTL: C4 does not
\* hold of it.
cache_hit_inclusive(method, params, c, ttl, time) ==
  /\ method \in DOMAIN ttl
  /\ CacheKey(method, params) \in DOMAIN c
  /\ time - c[CacheKey(method, params)].time <= ttl[method]

\* Lines 241-244: is there an entry for the key that is younger than the
\* method's TTL?
cache_hit(method, params, c, ttl, time) ==
  /\ method \in DOMAIN ttl
  /\ CacheKey(method, params) \in DOMAIN c
  /\ time - c[CacheKey(method, params)].time < ttl[method]

\* Lines 232-245: parse, rewrite, look the request up in the cache.
HLookup(t) ==
  /\ pc[t] = "lookup"
  /\ LET method == req[t].method
         params == force_pending(method, ReqParams(req[t]))
     IN IF cache_hit(method, params, cache, cache_ttl, now)
        THEN /\ cached_calls' = cached_calls + 1
             /\ hl' = [hl EXCEPT ![t].params = params,
                                 ![t].entry = cache[CacheKey(method, params)].response]
             /\ pc' = [pc EXCEPT ![t] = "hit_id"]
        ELSE /\ cached_calls' = cached_calls
             /\ hl' = [hl EXCEPT ![t].params = params]
             /\ pc' = [pc EXCEPT ![t] = "filter"]
  /\ UNCHANGED <<now, file, edits, config, last_config_snapshot, url_weights,
                 cache_ttl, last_config_file_check, last_status_time, cache,
                 robjs, lb_index, mon_config, mon_snapshot, last_reload_time,
                 max_behind, rpcs, objs, deques, total_calls,
                 req, resp, us, nreqs, dash_interval, dash_wake, dash_loops,
                 probe_failures, g_reads, g_runs, g_sel, g_store, g_pre,
                 g_out>>

\* Line 246: the caller's id is written into the response dict of the entry.
HHitId(t) ==
  /\ pc[t] = "hit_id"
  /\ robjs' = [robjs EXCEPT ![hl[t].entry].id = ReqId(req[t])]
  /\ pc' = [pc EXCEPT ![t] = "hit_ret"]
  /\ UNCHANGED <<now, file, edits, config, last_config_snapshot, url_weights,
                 cache_ttl, last_config_file_check, last_status_time, cache,
                 lb_index, mon_config, mon_snapshot, last_reload_time,
                 max_behind, rpcs, objs, deques, total_calls, cached_calls,
                 req, resp, hl, us, nreqs, dash_interval, dash_wake,
                 dash_loops, probe_failures, g_reads, g_runs, g_sel, g_store,
                 g_pre,
                 g_out>>

\* Line 247: jsonify reads the response dict of the entry.
HHitRet(t) ==
  /\ pc[t] = "hit_ret"
  /\ resp' = [resp EXCEPT ![t] = Resp(200, robjs[hl[t].entry])]
  /\ pc' = [pc EXCEPT ![t] = "done"]
  /\ UNCHANGED <<now, file, edits, config, last_config_snapshot, url_weights,
                 cache_ttl, last_config_file_check, last_status_time, cache,
                 robjs, lb_index, mon_config, mon_snapshot, last_reload_time,
                 max_behind, rpcs, objs, deques, total_calls, cached_calls,
                 req, hl, us, nreqs, dash_interval, dash_wake, dash_loops,
                 probe_failures, g_reads, g_runs, g_sel, g_store, g_pre,
                 g_out>>

\* Lines 266-267: drop the timestamps older than 60 s from the left.
RECURSIVE prune(_, _)
prune(ts, now_ts) ==
  IF ts # <<>> /\ Head(ts) < now_ts - PruneWindow
  THEN prune(Tail(ts), now_ts) ELSE ts

\* A variant that counts the whole window: C16 does not hold of it.
tps_count_all(ts, now_ts) == Len(ts)

\* Line 269: the timestamps of the last second.
tps_count(ts, now_ts) ==
  Cardinality({i \in 1..Len(ts) : ts[i] >= now_ts - TpsWindow})

\* Lines 270-273: may the endpoint take one more call?
under_limit(o, ts, now_ts) ==
  o.max_tps <= 0 \/ tps_count(prune(ts, now_ts), now_ts) < o.max_tps

\* Lines 251-277: the healthy endpoints, their windows pruned, and those of
\* them under their rate limit; 500 when none is healthy, a sleep of 50 ms
\* when none is under its limit.
HFilter(t) ==
  /\ pc[t] = "filter"
  /\ LET healthy_list == get_healthy_rpcs(rpcs, objs)
         pruned == {objs[healthy_list[i]].timestamps : i \in 1..Len(healthy_list)}
         available == SelectSeq(healthy_list,
                        LAMBDA id : under_limit(objs[id],
                                                deques[objs[id].timestamps], now))
     IN IF healthy_list = <<>>
        THEN /\ resp' = [resp EXCEPT ![t] =
                           Resp(500, Body(ReqId(req[t]), "", 0 - 32000))]
             /\ pc' = [pc EXCEPT ![t] = "done"]
             /\ UNCHANGED <<deques, hl>>
        ELSE /\ deques' = [d \in 1..Len(deques) |->
                             IF d \in pruned THEN prune(deques[d], now)
                             ELSE deques[d]]
             /\ hl' = [hl EXCEPT ![t].available = available]
             /\ pc' = [pc EXCEPT ![t] =
                         IF available # <<>> THEN "select" ELSE "sleep"]
             /\ resp' = resp
  /\ UNCHANGED <<now, file, edits, config, last_config_snapshot, url_weights,
                 cache_ttl, last_config_file_check, last_status_time, cache,
                 robjs, lb_index, mon_config, mon_snapshot, last_reload_time,
                 max_behind, rpcs, objs, total_calls, cached_calls,
                 req, us, nreqs, dash_interval, dash_wake, dash_loops,
                 probe_failures, g_reads, g_runs, g_sel, g_store, g_pre,
                 g_out>>

\* Line 277: time.sleep(0.05) returns (50 ms are less than a second of the
\* clock, which may or may not have advanced).
HSleep(t) ==
  /\ pc[t] = "sleep"
  /\ pc' = [pc EXCEPT ![t] = "filter"]
  /\ UNCHANGED <<now, file, edits, config, last_config_snapshot, url_weights,
                 cache_ttl, last_config_file_check, last_status_time, cache,
                 robjs, lb_index, mon_config, mon_snapshot, last_reload_time,
                 max_behind, rpcs, objs, deques, total_calls, cached_calls,
                 req, resp, hl, us, nreqs, dash_interval, dash_wake,
                 dash_loops, probe_failures, g_reads, g_runs, g_sel, g_store,
                 g_pre,
                 g_out>>


\* ---------------------------------------------------------------- selection
\* Lines 280-288: the primaries among the available endpoints if there is
\* one, else the secondaries.
primaries(available, cfg, os) ==
  SelectSeq(available, LAMBDA id : os[id].url \in UrlsOf(cfg.primary))

secondaries(available, cfg, os) ==
  SelectSeq(available, LAMBDA id : os[id].url \in UrlsOf(cfg.secondary))

\* A variant that prefers the secondaries: C6 does not hold of it.
chosen_set_secondary_first(available, cfg, os) ==
  IF secondaries(available, cfg, os) # <<>>
  THEN secondaries(available, cfg, os)
  ELSE primaries(available, cfg, os)

chosen_set(available, cfg, os) ==
  IF primaries(available, cfg, os) # <<>>
  THEN primaries(available, cfg, os)
  ELSE secondaries(available, cfg, os)

\* [rpc] * w: empty when w <= 0.
Repeat(id, w) == [i \in 1..w |-> id]

\* url_weights.get(url, 1)
WeightFor(w, url) == IF url \in DOMAIN w THEN w[url] ELSE DefaultWeight

\* Lines 291-294
RECURSIVE weighted_list(_, _, _)
weighted_list(chosen, w, os) ==
  IF chosen = <<>> THEN <<>>
  ELSE Repeat(Head(chosen), WeightFor(w, os[Head(chosen)].url))
       \o weighted_list(Tail(chosen), w, os)

\* min(r["latency"] for r in weighted_list), of a list that is not empty
MinLatency(weighted, os) ==
  CHOOSE m \in {os[weighted[i]].latency : i \in 1..Len(weighted)} :
    \A i \in 1..Len(weighted) : ~LtInf(os[weighted[i]].latency, m)

\* Lines 297-309: the latency filter.
under_threshold(weighted, threshold, os) ==
  SelectSeq(weighted, LAMBDA id : /\ os[id].latency # Inf
                                  /\ os[id].latency < threshold)

candidates(weighted, threshold, os) ==
  IF threshold # Absent
  THEN IF under_threshold(weighted, threshold, os) # <<>>
       THEN under_threshold(weighted, threshold, os)
       ELSE IF weighted = <<>> THEN <<>>
            ELSE SelectSeq(weighted,
                   LAMBDA id : os[id].latency = MinLatency(weighted, os))
  ELSE weighted

\* A variant that ignores the counter: C7 does not hold of it.
round_robin_first(cands, idx) == cands[1]

\* Line 312
round_robin(cands, idx) == cands[(idx % Len(cands)) + 1]

\* What a selection leaves in the history.
SelRecord(cands, idx, w, os) ==
  [idx |-> idx,
   url |-> os[round_robin(cands, idx)].url,
   cands |-> [i \in 1..Len(cands) |-> os[cands[i]].url],
   weights |-> [u \in {os[cands[i]].url : i \in 1..Len(cands)} |-> WeightFor(w, u)]]

\* Lines 279-312: tier split, weights, latency filter, and the endpoint at
\* the round-robin index.  With no candidate, min() of an empty list or the
\* modulo by zero raises and Flask answers 500.
HSelect(t) ==
  /\ pc[t] = "select"
  /\ LET chosen == chosen_set(hl[t].available, config, objs)
         weighted == weighted_list(chosen, url_weights, objs)
         cands == candidates(weighted, config.latency_threshold_ms, objs)
     IN IF cands = <<>>
        THEN /\ resp' = [resp EXCEPT ![t] = Resp(500, NoBody)]
             /\ pc' = [pc EXCEPT ![t] = "done"]
             /\ UNCHANGED <<hl, g_sel>>
        ELSE /\ hl' = [hl EXCEPT ![t].idx = lb_index,
                                 ![t].selected = round_robin(cands, lb_index)]
             /\ g_sel' = Append(g_sel, SelRecord(cands, lb_index, url_weights, objs))
             /\ pc' = [pc EXCEPT ![t] = "incr"]
             /\ resp' = resp
  /\ UNCHANGED <<now, file, edits, config, last_config_snapshot, url_weights,
                 cache_ttl, last_config_file_check, last_status_time, cache,
                 robjs, lb_index, mon_config, mon_snapshot, last_reload_time,
                 max_behind, rpcs, objs, deques, total_calls, cached_calls,
                 req, us, nreqs, dash_interval, dash_wake, dash_loops,
                 probe_failures, g_reads, g_runs, g_store, g_pre,
                 g_out>>

\* Line 313: setattr(relay, "_lb_index", idx + 1)
HIncr(t) ==
  /\ pc[t] = "incr"
  /\ lb_index' = hl[t].idx + 1
  /\ pc' = [pc EXCEPT ![t] = "stamp_time"]
  /\ UNCHANGED <<now, file, edits, config, last_config_snapshot, url_weights,
                 cache_ttl, last_config_file_check, last_status_time, cache,
                 robjs, mon_config, mon_snapshot, last_reload_time,
                 max_behind, rpcs, objs, deques, total_calls, cached_calls,
                 req, resp, hl, us, nreqs, dash_interval, dash_wake,
                 dash_loops, probe_failures, g_reads, g_runs, g_sel, g_store,
                 g_pre,
                 g_out>>

\* Lines 316-317: the URL, and the argument time.time() of the append.
HStampTime(t) ==
  /\ pc[t] = "stamp_time"
  /\ hl' = [hl EXCEPT ![t].selected_url = objs[hl[t].selected].url,
                      ![t].stamp = now]
  /\ pc' = [pc EXCEPT ![t] = "stamp"]
  /\ UNCHANGED <<now, file, edits, config, last_config_snapshot, url_weights,
                 cache_ttl, last_config_file_check, last_status_time, cache,
                 robjs, lb_index, mon_config, mon_snapshot, last_reload_time,
                 max_behind, rpcs, objs, deques, total_calls, cached_calls,
                 req, resp, us, nreqs, dash_interval, dash_wake,
                 dash_loops, probe_failures, g_reads, g_runs, g_sel, g_store,
                 g_pre,
                 g_out>>

\* Line 317: the append to the deque of the selected dict.
HStamp(t) ==
  /\ pc[t] = "stamp"
  /\ deques' = [deques EXCEPT ![objs[hl[t].selected].timestamps] =
                  Append(@, hl[t].stamp)]
  /\ pc' = [pc EXCEPT ![t] = "record"]
  /\ UNCHANGED <<now, file, edits, config, last_config_snapshot, url_weights,
                 cache_ttl, last_config_file_check, last_status_time, cache,
                 robjs, lb_index, mon_config, mon_snapshot, last_reload_time,
                 max_behind, rpcs, objs, total_calls, cached_calls,
                 req, resp, hl, us, nreqs, dash_interval, dash_wake,
                 dash_loops, probe_failures, g_reads, g_runs, g_sel, g_store,
                 g_pre,
                 g_out>>

\* record_rpc_call: total_calls, and call_count of the first dict of
\* self.rpcs with the URL.
record_rpc_call(lst, os, url) ==
  IF \E i \in 1..Len(lst) : os[lst[i]].url = url
  THEN LET i == CHOOSE i \in 1..Len(lst) :
                  /\ os[lst[i]].url = url
                  /\ \A j \in 1..Len(lst) : os[lst[j]].url = url => i <= j
       IN [os EXCEPT ![lst[i]].call_count = @ + 1]
  ELSE os

\* JSON object access: dict.get(key), and dict[key] = value.
ObjHas(kv, key) == \E i \in 1..Len(kv) : kv[i][1] = key
ObjGet(kv, key) ==
  IF ObjHas(kv, key)
  THEN kv[CHOOSE i \in 1..Len(kv) : kv[i][1] = key][2]
  ELSE JNull
ObjSet(kv, key, val) ==
  IF ObjHas(kv, key)
  THEN [i \in 1..Len(kv) |-> IF kv[i][1] = key THEN <<key, val>> ELSE kv[i]]
  ELSE Append(kv, <<key, val>>)

\* Lines 321-325: does the nonce pre-check ask the endpoint?
wants_nonce_check(method, params) ==
  /\ method \in {"eth_sendTransaction", "personal_sendTransaction"}
  /\ params.t = "list"
  /\ Len(params.items) >= 1
  /\ params.items[1].t = "obj"
  /\ ObjGet(params.items[1].kv, "from").t = "str"
  /\ ObjGet(params.items[1].kv, "from").s # ""

\* Line 318: monitor.record_rpc_call(selected_url)
HRecord(t) ==
  /\ pc[t] = "record"
  /\ total_calls' = total_calls + 1
  /\ objs' = record_rpc_call(rpcs, objs, hl[t].selected_url)
  /\ pc' = [pc EXCEPT ![t] =
              IF wants_nonce_check(req[t].method, hl[t].params)
              THEN "nonce" ELSE "forward"]
  /\ UNCHANGED <<now, file, edits, config, last_config_snapshot, url_weights,
                 cache_ttl, last_config_file_check, last_status_time, cache,
                 robjs, lb_index, mon_config, mon_snapshot, last_reload_time,
                 max_behind, rpcs, deques, cached_calls,
                 req, resp, hl, us, nreqs, dash_interval, dash_wake,
                 dash_loops, probe_failures, g_reads, g_runs, g_sel, g_store,
                 g_pre,
                 g_out>>

\* What the upstream gives: a result, or (ok false) a transport error, a
\* timeout or a body that is not JSON.  result "" is a body without result
\* (or with null for it); EmptyResult is a result that is the empty string.
Upstream(ok, result) == [ok |-> ok, result |-> result]
EmptyResult == "<empty string>"

\* Line 335, if correct_nonce: Python takes None and the empty string for
\* false.
truthy(result) == result \notin {"", EmptyResult}

\* A variant that never writes the nonce: C15 does not hold of it.
correct_nonce_keep(params, o) == params

\* Lines 335-338: the nonce of the transaction after the pre-check.
correct_nonce(params, o) ==
  IF o.ok /\ truthy(o.result)
     /\ ObjGet(params.items[1].kv, "nonce") # JStr(o.result)
  THEN JList([i \in 1..Len(params.items) |->
                IF i = 1
                THEN JObj(ObjSet(params.items[1].kv, "nonce", JStr(o.result)))
                ELSE params.items[i]])
  ELSE params

\* An outbound call as the history keeps it: session.post(url, json=payload)
\* of line 332 and of line 345, and what the endpoint gave.
OutCall(kind, url, method, params, answer) ==
  [kind |-> kind, url |-> url, method |-> method, params |-> params,
   answer |-> answer]

NonceCall(t, o) ==
  OutCall("nonce", hl[t].selected_url, "eth_getTransactionCount",
          JList(<<ObjGet(hl[t].params.items[1].kv, "from"), JStr("pending")>>),
          o)

ForwardCall(t, o) ==
  OutCall("forward", hl[t].selected_url, req[t].method, hl[t].params, o)

\* Lines 326-340: eth_getTransactionCount(from, "pending") on the selected
\* endpoint, and its result written into the transaction.
HNonce(t, o) ==
  /\ pc[t] = "nonce"
  /\ hl' = [hl EXCEPT ![t].params = correct_nonce(hl[t].params, o)]
  /\ pc' = [pc EXCEPT ![t] = "forward"]
  /\ g_out' = [g_out EXCEPT ![t] = Append(@, NonceCall(t, o))]
  /\ UNCHANGED <<now, file, edits, config, last_config_snapshot, url_weights,
                 cache_ttl, last_config_file_check, last_status_time, cache,
                 robjs, lb_index, mon_config, mon_snapshot, last_reload_time,
                 max_behind, rpcs, objs, deques, total_calls, cached_calls,
                 req, resp, us, nreqs, dash_interval, dash_wake,
                 dash_loops, probe_failures, g_reads, g_runs, g_sel, g_store,
                 g_pre>>

\* A variant that answers without the client's id: C13 does not hold of it.
upstream_error_no_id(r) == Resp(500, Body(0, "", 0 - 32603))

\* Lines 348-355: the answer to a forward that failed.
upstream_error(r) == Resp(500, Body(ReqId(r), "", 0 - 32603))

\* Lines 343-355: the request goes to the selected endpoint, which answers
\* with the id it was sent; an error gives 500 with -32603.
HForward(t, o) ==
  /\ pc[t] = "forward"
  /\ g_out' = [g_out EXCEPT ![t] = Append(@, ForwardCall(t, o))]
  /\ IF o.ok
     THEN /\ hl' = [hl EXCEPT ![t].upstream = Body(ReqId(req[t]), o.result, 0)]
          /\ pc' = [pc EXCEPT ![t] = "store"]
          /\ resp' = resp
     ELSE /\ resp' = [resp EXCEPT ![t] = upstream_error(req[t])]
          /\ pc' = [pc EXCEPT ![t] = "done"]
          /\ hl' = hl
  /\ UNCHANGED <<now, file, edits, config, last_config_snapshot, url_weights,
                 cache_ttl, last_config_file_check, last_status_time, cache,
                 robjs, lb_index, mon_config, mon_snapshot, last_reload_time,
                 max_behind, rpcs, objs, deques, total_calls, cached_calls,
                 req, us, nreqs, dash_interval, dash_wake,
                 dash_loops, probe_failures, g_reads, g_runs, g_sel, g_store,
                 g_pre>>

Put(f, k, v) == [x \in DOMAIN f \cup {k} |-> IF x = k THEN v ELSE f[x]]

\* Lines 358-360: the response dict goes into the cache under the key of the
\* params as they are now.
HStore(t) ==
  /\ pc[t] = "store"
  /\ IF req[t].method \in DOMAIN cache_ttl
     THEN LET key == CacheKey(req[t].method, hl[t].params)
          IN /\ robjs' = Append(robjs, hl[t].upstream)
             /\ cache' = Put(cache, key,
                             [time |-> now, response |-> Len(robjs) + 1])
             /\ g_store' = Put(g_store, key,
                               [time |-> now, response |-> hl[t].upstream,
                                cleared |-> FALSE])
             /\ hl' = [hl EXCEPT ![t].uref = Len(robjs) + 1]
     ELSE UNCHANGED <<robjs, cache, g_store, hl>>
  /\ pc' = [pc EXCEPT ![t] = "ret"]
  /\ UNCHANGED <<now, file, edits, config, last_config_snapshot, url_weights,
                 cache_ttl, last_config_file_check, last_status_time,
                 lb_index, mon_config, mon_snapshot, last_reload_time,
                 max_behind, rpcs, objs, deques, total_calls, cached_calls,
                 req, resp, us, nreqs, dash_interval, dash_wake,
                 dash_loops, probe_failures, g_reads, g_runs, g_sel, g_pre,
                 g_out>>

\* Lines 362-363: jsonify reads the response dict, which the cache may hold.
HReturn(t) ==
  /\ pc[t] = "ret"
  /\ resp' = [resp EXCEPT ![t] =
                Resp(200, IF hl[t].uref # 0 THEN robjs[hl[t].uref]
                          ELSE hl[t].upstream)]
  /\ pc' = [pc EXCEPT ![t] = "done"]
  /\ UNCHANGED <<now, file, edits, config, last_config_snapshot, url_weights,
                 cache_ttl, last_config_file_check, last_status_time, cache,
                 robjs, lb_index, mon_config, mon_snapshot, last_reload_time,
                 max_behind, rpcs, objs, deques, total_calls, cached_calls,
                 req, hl, us, nreqs, dash_interval, dash_wake, dash_loops,
                 probe_failures, g_reads, g_runs, g_sel, g_store, g_pre,
                 g_out>>

\* The response has gone to the client; the thread is free again.
HFinish(t) ==
  /\ pc[t] = "done"
  /\ pc' = [pc EXCEPT ![t] = "idle"]
  /\ req' = [req EXCEPT ![t] = NoReq]
  /\ resp' = [resp EXCEPT ![t] = NoResp]
  /\ hl' = [hl EXCEPT ![t] = HL0]
  /\ g_out' = [g_out EXCEPT ![t] = <<>>]
  /\ UNCHANGED <<now, file, edits, config, last_config_snapshot, url_weights,
                 cache_ttl, last_config_file_check, last_status_time, cache,
                 robjs, lb_index, mon_config, mon_snapshot, last_reload_time,
                 max_behind, rpcs, objs, deques, total_calls, cached_calls,
                 us, nreqs, dash_interval, dash_wake, dash_loops,
                 probe_failures, g_reads, g_runs, g_sel, g_store, g_pre>>


\* ---------------------------------------------------------- configurations
\* Primary A limited to one call per second, secondary B unlimited;
\* eth_chainId cached for 5 s; an endpoint may be 2 blocks behind.
CfgLimited ==
  Cfg(<<Ep("A", Absent, 1)>>, <<Ep("B", Absent, Absent)>>, Absent, Absent,
      [m \in {"eth_chainId"} |-> 5], 2)

ChainId(id) == Req("post", "eth_chainId", JList(<<>>), id)
BlockNumber(id) == Req("post", "eth_blockNumber", JList(<<>>), id)

Probes == {Probe(TRUE, 1000, 20), Probe(TRUE, 1003, 20), Probe(FALSE, 0, 0)}
Upstreams == {Upstream(TRUE, "0x1"), Upstream(FALSE, "")}

\* ----------------------------------------------------------- specifications
\* SpecCold: the process from its start, with one handler thread and the
\* dashboard thread, over CfgLimited.  The cache is empty at the start, so
\* the ColdReqs = 1 request of a run cannot hit it.
ColdThreads == {"h1", Dash}

InitCold == InitWith(CfgLimited)

NextCold ==
  \/ \E r \in {ChainId(1)} : StartRequest("h1", r, ColdReqs)
  \/ \E t \in ColdThreads : RcCheck(t)
  \/ \E t \in ColdThreads : RcRead(t)
  \/ \E t \in ColdThreads : RcApply(t)
  \/ HThrottle("h1")
  \/ \E t \in ColdThreads : MrCheck(t)
  \/ \E t \in ColdThreads : MrApply(t)
  \/ \E t \in ColdThreads : \E o \in Probes : UsProbe(t, o)
  \/ \E t \in ColdThreads : UsClassify(t)
  \/ HPostStatus("h1")
  \/ HLookup("h1")
  \/ HFilter("h1")
  \/ HSelect("h1")
  \/ HIncr("h1")
  \/ HStampTime("h1")
  \/ HStamp("h1")
  \/ HRecord("h1")
  \/ \E o \in Upstreams : HForward("h1", o)
  \/ HStore("h1")
  \/ HReturn("h1")
  \/ HFinish("h1")
  \/ DashStart
  \/ DashRender
  \/ Tick(1, ShortHorizon)

SpecCold == InitCold /\ [][NextCold]_vars


\* SpecWarm: two handler threads, from the state the process is in once the
\* dashboard's first loop turn is over (both probes gave block 1000 in 20 ms)
\* and a first eth_chainId request with id 1 has been answered by A and
\* cached, all within the second of the start.  Until WarmHorizon the reload
\* throttle (30 s), the monitor throttle (5 s) and the dashboard's sleep
\* (5 s) keep the configuration and the health records as they are.
WarmHorizon == 2

WarmThreads == {"h1", "h2"}

WarmRequests(t) ==
  IF t = "h1" THEN {ChainId(2), BlockNumber(2)}
  ELSE {ChainId(3), BlockNumber(3)}

InitWarm ==
  LET b == build_initial_rpc_list(CfgLimited, <<>>, <<>>)
      key == CacheKey("eth_chainId", JList(<<>>))
      answer == Body(1, "0x1", 0)
  IN /\ now = StartTime
     /\ file = [ok |-> TRUE, cfg |-> CfgLimited]
     /\ edits = 0
     /\ config = CfgLimited
     /\ last_config_snapshot = CfgLimited
     /\ url_weights = build_url_weights(CfgLimited)
     /\ cache_ttl = CfgLimited.cache_ttl
     /\ last_config_file_check = StartTime
     /\ last_status_time = StartTime
     /\ cache = Put([k \in {} |-> 0], key, [time |-> StartTime, response |-> 1])
     /\ robjs = <<answer>>
     /\ lb_index = 1
     /\ mon_config = CfgLimited
     /\ mon_snapshot = CfgLimited
     /\ last_reload_time = StartTime
     /\ max_behind = CfgLimited.max_blocks_behind
     /\ rpcs = b.rpcs
     /\ objs = [i \in 1..Len(b.objs) |->
                  [b.objs[i] EXCEPT !.latest_block = 1000, !.latency = 20,
                                    !.call_count = IF i = 1 THEN 1 ELSE 0]]
     /\ deques = [i \in 1..Len(b.deques) |->
                    IF i = 1 THEN <<StartTime>> ELSE <<>>]
     /\ total_calls = 1
     /\ cached_calls = 0
     /\ pc = [t \in Threads |-> IF t = Dash THEN "dash_sleep" ELSE "idle"]
     /\ req = [t \in Threads |-> NoReq]
     /\ resp = [t \in Threads |-> NoResp]
     /\ hl = [t \in Threads |-> HL0]
     /\ us = [t \in Threads |-> US0]
     /\ nreqs = 1
     /\ dash_interval = DefaultMonitorInterval
     /\ dash_wake = StartTime + DefaultMonitorInterval
     /\ dash_loops = 0
     /\ probe_failures = 0
     /\ g_reads = <<StartTime, StartTime>>
     /\ g_runs = <<StartTime, StartTime>>
     /\ g_sel = <<[idx |-> 0, url |-> "A", cands |-> <<"A">>,
                   weights |-> [u \in {"A"} |-> 1]]>>
     /\ g_store = Put([k \in {} |-> 0], key,
                      [time |-> StartTime, response |-> answer,
                       cleared |-> FALSE])
     /\ g_pre = [t \in Threads |-> <<>>]
     /\ g_out = [t \in Threads |-> <<>>]

NextWarm ==
  \/ \E t \in WarmThreads : \E r \in WarmRequests(t) :
       StartRequest(t, r, 1 + MaxReqs)
  \/ \E t \in WarmThreads : RcCheck(t)
  \/ \E t \in WarmThreads : HThrottle(t)
  \/ \E t \in WarmThreads : HLookup(t)
  \/ \E t \in WarmThreads : HHitId(t)
  \/ \E t \in WarmThreads : HHitRet(t)
  \/ \E t \in WarmThreads : HFilter(t)
  \/ \E t \in WarmThreads : HSelect(t)
  \/ \E t \in WarmThreads : HIncr(t)
  \/ \E t \in WarmThreads : HStampTime(t)
  \/ \E t \in WarmThreads : HStamp(t)
  \/ \E t \in WarmThreads : HRecord(t)
  \/ \E t \in WarmThreads : \E o \in Upstreams : HForward(t, o)
  \/ \E t \in WarmThreads : HStore(t)
  \/ \E t \in WarmThreads : HReturn(t)
  \/ \E t \in WarmThreads : HFinish(t)
  \/ Tick(1, WarmHorizon)

SpecWarm == InitWarm /\ [][NextWarm]_vars

\* SpecFair: one handler thread answers FairReqs requests one after the
\* other, from the start of the process and before the dashboard thread has
\* run.  Primaries A (weight 2) and B (weight 1), no rate limit, latency
\* threshold 50 ms; the monitor runs in the first request and again in the
\* first request after FairHorizon = monitor_interval seconds.
FairReqs == 6
FairHorizon == 5

CfgFair ==
  Cfg(<<Ep("A", 2, Absent), Ep("B", 1, Absent)>>, <<>>, Absent, 50, NoTtl, 2)

FairProbes == {Probe(TRUE, 1000, 20), Probe(TRUE, 1000, 80), Probe(FALSE, 0, 0)}

InitFair == InitWith(CfgFair)

NextFair ==
  \/ StartRequest("h1", BlockNumber(1), FairReqs)
  \/ RcCheck("h1")
  \/ RcRead("h1")
  \/ RcApply("h1")
  \/ HThrottle("h1")
  \/ MrCheck("h1")
  \/ MrApply("h1")
  \/ \E o \in FairProbes : UsProbe("h1", o)
  \/ UsClassify("h1")
  \/ HPostStatus("h1")
  \/ HLookup("h1")
  \/ HFilter("h1")
  \/ HSelect("h1")
  \/ HIncr("h1")
  \/ HStampTime("h1")
  \/ HStamp("h1")
  \/ HRecord("h1")
  \/ \E o \in Upstreams : HForward("h1", o)
  \/ HStore("h1")
  \/ HReturn("h1")
  \/ HFinish("h1")
  \/ Tick(FairHorizon, FairHorizon)

SpecFair == InitFair /\ [][NextFair]_vars

\* SpecCache: one handler thread, from the start of the process and before
\* the dashboard thread has run, over LongHorizon seconds in which the clock
\* is seen every CacheStep seconds and config.yaml is rewritten between two
\* requests: eth_chainId is cached for LongTtl seconds and eth_gasPrice for
\* ShortTtl, or nothing is cached.
CacheReqs == 3
CacheStep == 30
LongTtl == 70
ShortTtl == 30

CfgCache ==
  Cfg(<<Ep("A", Absent, Absent)>>, <<>>, Absent, Absent,
      [m \in {"eth_chainId", "eth_gasPrice"} |->
         IF m = "eth_chainId" THEN LongTtl ELSE ShortTtl], Absent)

CfgNoCache == Cfg(<<Ep("A", Absent, Absent)>>, <<>>, Absent, Absent, NoTtl, Absent)

CfgChainOnly ==
  Cfg(<<Ep("A", Absent, Absent)>>, <<>>, Absent, Absent,
      [m \in {"eth_chainId"} |-> LongTtl], Absent)

GasPrice(id) == Req("post", "eth_gasPrice", JList(<<>>), id)

CacheRequests == {ChainId(1), ChainId(2), GasPrice(1)}
CacheProbes == {Probe(TRUE, 1000, 20)}

InitCache == InitWith(CfgCache)

NextCache ==
  \/ \E r \in CacheRequests : StartRequest("h1", r, CacheReqs)
  \/ \E c \in {CfgCache, CfgNoCache, CfgChainOnly} :
       pc["h1"] = "idle" /\ EditFile([ok |-> TRUE, cfg |-> c])
  \/ RcCheck("h1")
  \/ RcRead("h1")
  \/ RcApply("h1")
  \/ HThrottle("h1")
  \/ MrCheck("h1")
  \/ MrApply("h1")
  \/ \E o \in CacheProbes : UsProbe("h1", o)
  \/ UsClassify("h1")
  \/ HPostStatus("h1")
  \/ HLookup("h1")
  \/ HHitId("h1")
  \/ HHitRet("h1")
  \/ HFilter("h1")
  \/ HSelect("h1")
  \/ HIncr("h1")
  \/ HStampTime("h1")
  \/ HStamp("h1")
  \/ HRecord("h1")
  \/ \E o \in Upstreams : HForward("h1", o)
  \/ HStore("h1")
  \/ HReturn("h1")
  \/ HFinish("h1")
  \/ Tick(CacheStep, LongHorizon)

SpecCache == InitCache /\ [][NextCache]_vars

\* SpecErr: one handler thread, from the start of the process and before the
\* dashboard thread has run, over one primary A limited to one call per
\* second with eth_chainId cached for 5 s.  The probe of A and the upstream
\* calls may fail, config.yaml may become unreadable, and the requests
\* include one without id and transactions for the nonce pre-check.
ErrReqs == 2
ErrHorizon == 1

CfgErr ==
  Cfg(<<Ep("A", Absent, 1)>>, <<>>, Absent, Absent,
      [m \in {"eth_chainId"} |-> 5], 2)

Unreadable == [ok |-> FALSE, cfg |-> EmptyCfg]

Tx(from, nonce) ==
  JObj(IF nonce = "" THEN <<<<"from", JStr(from)>>>>
       ELSE <<<<"from", JStr(from)>>, <<"nonce", JStr(nonce)>>>>)

SendTx(id) == Req("post", "eth_sendTransaction", JList(<<Tx("0xabc", "0x5")>>), id)
PersonalTx(id) ==
  Req("post", "personal_sendTransaction", JList(<<Tx("0xabc", ""), JStr("pw")>>), id)

ErrRequests == {ChainId(1), BlockNumber(Absent), SendTx(3), PersonalTx(4)}
ErrProbes == {Probe(TRUE, 1000, 20), Probe(FALSE, 0, 0)}
ErrUpstreams ==
  {Upstream(TRUE, "0x7"), Upstream(TRUE, "0x5"), Upstream(TRUE, ""),
   Upstream(TRUE, EmptyResult), Upstream(FALSE, "")}

InitErr == InitWith(CfgErr)

NextErr ==
  \/ \E r \in ErrRequests : StartRequest("h1", r, ErrReqs)
  \/ pc["h1"] = "idle" /\ EditFile(Unreadable)
  \/ RcCheck("h1")
  \/ RcRead("h1")
  \/ RcApply("h1")
  \/ HThrottle("h1")
  \/ MrCheck("h1")
  \/ MrApply("h1")
  \/ \E o \in ErrProbes : UsProbe("h1", o)
  \/ UsClassify("h1")
  \/ HPostStatus("h1")
  \/ HLookup("h1")
  \/ HHitId("h1")
  \/ HHitRet("h1")
  \/ HFilter("h1")
  \/ HSleep("h1")
  \/ HSelect("h1")
  \/ HIncr("h1")
  \/ HStampTime("h1")
  \/ HStamp("h1")
  \/ HRecord("h1")
  \/ \E o \in ErrUpstreams : HNonce("h1", o)
  \/ \E o \in ErrUpstreams : HForward("h1", o)
  \/ HStore("h1")
  \/ HReturn("h1")
  \/ HFinish("h1")
  \/ Tick(1, ErrHorizon)

SpecErr == InitErr /\ [][NextErr]_vars

\* SpecReload: one handler thread, from the start of the process over
\* CfgLimited and before the dashboard thread has run, over LongHorizon
\* seconds in which the clock is seen every CacheStep seconds and
\* config.yaml is rewritten between two requests: the secondary B gives way
\* to C, or the weights, max_tps and max_blocks_behind change and the URLs
\* stay.
ReloadReqs == 3

CfgSwap ==
  Cfg(<<Ep("A", Absent, 1)>>, <<Ep("C", Absent, Absent)>>, Absent, Absent,
      [m \in {"eth_chainId"} |-> 5], 2)

CfgTuned ==
  Cfg(<<Ep("A", 2, 2)>>, <<Ep("B", 1, 3)>>, Absent, Absent,
      [m \in {"eth_chainId"} |-> 5], 1)

InitReload == InitWith(CfgLimited)

NextReload ==
  \/ StartRequest("h1", BlockNumber(1), ReloadReqs)
  \/ \E c \in {CfgSwap, CfgTuned} :
       pc["h1"] = "idle" /\ EditFile([ok |-> TRUE, cfg |-> c])
  \/ RcCheck("h1")
  \/ RcRead("h1")
  \/ RcApply("h1")
  \/ HThrottle("h1")
  \/ MrCheck("h1")
  \/ MrApply("h1")
  \/ \E o \in Probes : UsProbe("h1", o)
  \/ UsClassify("h1")
  \/ HPostStatus("h1")
  \/ HLookup("h1")
  \/ HFilter("h1")
  \/ HSleep("h1")
  \/ HSelect("h1")
  \/ HIncr("h1")
  \/ HStampTime("h1")
  \/ HStamp("h1")
  \/ HRecord("h1")
  \/ \E o \in Upstreams : HForward("h1", o)
  \/ HStore("h1")
  \/ HReturn("h1")
  \/ HFinish("h1")
  \/ Tick(CacheStep, LongHorizon)

SpecReload == InitReload /\ [][NextReload]_vars

\* SpecLive: three handler threads over one primary A limited to two calls
\* per second, with monitor_interval 60, from the state the process is in
\* once the dashboard's first loop turn is over (the probe gave block 1000 in
\* 20 ms) and a first eth_blockNumber request has been answered by A, all
\* within the second of the start, and two seconds have passed since, so
\* that the first call is out of the count of line 269.  Until LiveHorizon
\* (counted from the start) the reload throttle
\* (30 s), the monitor throttle (60 s) and the dashboard's sleep (60 s) keep
\* the configuration and the health record as they are, so A stays healthy.
\* LiveReqs more requests arrive, at any time.  The clock is seen to advance
\* while a handler is in its time.sleep(0.05), for up to two seconds per
\* request, the time a timestamp stays in the count of line 269.  Every
\* handler thread that can take a step takes one in the end, and a handler
\* that keeps sleeping sees the clock advance.
LiveReqs == 3
LiveIdle == 2
LiveHorizon == LiveIdle + 2 * LiveReqs

LiveThreads == {"h1", "h2", "h3"}

LiveInterval == 60

CfgLive == Cfg(<<Ep("A", Absent, 2)>>, <<>>, LiveInterval, Absent, NoTtl, 2)

InitLive ==
  LET b == build_initial_rpc_list(CfgLive, <<>>, <<>>)
  IN /\ now = StartTime + LiveIdle
     /\ file = [ok |-> TRUE, cfg |-> CfgLive]
     /\ edits = 0
     /\ config = CfgLive
     /\ last_config_snapshot = CfgLive
     /\ url_weights = build_url_weights(CfgLive)
     /\ cache_ttl = CfgLive.cache_ttl
     /\ last_config_file_check = StartTime
     /\ last_status_time = StartTime
     /\ cache = [k \in {} |-> 0]
     /\ robjs = <<>>
     /\ lb_index = 1
     /\ mon_config = CfgLive
     /\ mon_snapshot = CfgLive
     /\ last_reload_time = StartTime
     /\ max_behind = CfgLive.max_blocks_behind
     /\ rpcs = b.rpcs
     /\ objs = [i \in 1..Len(b.objs) |->
                  [b.objs[i] EXCEPT !.latest_block = 1000, !.latency = 20,
                                    !.call_count = 1]]
     /\ deques = [i \in 1..Len(b.deques) |-> <<StartTime>>]
     /\ total_calls = 1
     /\ cached_calls = 0
     /\ pc = [t \in Threads |-> IF t = Dash THEN "dash_sleep" ELSE "idle"]
     /\ req = [t \in Threads |-> NoReq]
     /\ resp = [t \in Threads |-> NoResp]
     /\ hl = [t \in Threads |-> HL0]
     /\ us = [t \in Threads |-> US0]
     /\ nreqs = 1
     /\ dash_interval = LiveInterval
     /\ dash_wake = StartTime + LiveInterval
     /\ dash_loops = 0
     /\ probe_failures = 0
     /\ g_reads = <<StartTime, StartTime>>
     /\ g_runs = <<StartTime, StartTime>>
     /\ g_sel = <<[idx |-> 0, url |-> "A", cands |-> <<"A">>,
                   weights |-> [u \in {"A"} |-> 1]]>>
     /\ g_store = [k \in {} |-> 0]
     /\ g_pre = [t \in Threads |-> <<>>]
     /\ g_out = [t \in Threads |-> <<>>]

\* Line 277: time passes in time.sleep(0.05).
TickInSleep ==
  /\ \E t \in LiveThreads : pc[t] = "sleep"
  /\ Tick(1, LiveHorizon)

\* The steps of the handler thread t once Flask has given it a request.
HandlerStep(t) ==
  \/ RcCheck(t)
  \/ HThrottle(t)
  \/ HLookup(t)
  \/ HFilter(t)
  \/ HSleep(t)
  \/ HSelect(t)
  \/ HIncr(t)
  \/ HStampTime(t)
  \/ HStamp(t)
  \/ HRecord(t)
  \/ \E o \in Upstreams : HForward(t, o)
  \/ HStore(t)
  \/ HReturn(t)
  \/ HFinish(t)

NextLive ==
  \/ \E t \in LiveThreads : StartRequest(t, BlockNumber(1), 1 + LiveReqs)
  \/ \E t \in LiveThreads : HandlerStep(t)
  \/ TickInSleep

SpecLive ==
  /\ InitLive
  /\ [][NextLive]_vars
  /\ \A t \in LiveThreads : WF_vars(HandlerStep(t))
  /\ SF_vars(TickInSleep)

\* SpecPending: one handler thread, from the start of the process and before
\* the dashboard thread has run, over one primary A without a rate limit,
\* with eth_getTransactionCount cached for 5 s.  The clients ask for the
\* transaction count of one address with every shape of params: the address
\* alone, with a block tag, with a block tag and a further element, already
\* "pending", an empty array, no params at all, and an object.
PendReqs == 3

CfgPending ==
  Cfg(<<Ep("A", Absent, Absent)>>, <<>>, Absent, Absent,
      [m \in {"eth_getTransactionCount"} |-> 5], 2)

Addr == JStr("0xabc")

PendingParams ==
  {JList(<<Addr>>),
   JList(<<Addr, JStr("latest")>>),
   JList(<<Addr, JStr("latest"), JStr("0x0")>>),
   JList(<<Addr, JStr("pending")>>),
   JList(<<>>),
   JAbsent,
   JObj(<<<<"from", Addr>>>>)}

GetCount(params, id) == Req("post", "eth_getTransactionCount", params, id)

PendingProbes == {Probe(TRUE, 1000, 20)}

InitPending == InitWith(CfgPending)

NextPending ==
  \/ \E p \in PendingParams : StartRequest("h1", GetCount(p, 1), PendReqs)
  \/ RcCheck("h1")
  \/ RcRead("h1")
  \/ RcApply("h1")
  \/ HThrottle("h1")
  \/ MrCheck("h1")
  \/ MrApply("h1")
  \/ \E o \in PendingProbes : UsProbe("h1", o)
  \/ UsClassify("h1")
  \/ HPostStatus("h1")
  \/ HLookup("h1")
  \/ HHitId("h1")
  \/ HHitRet("h1")
  \/ HFilter("h1")
  \/ HSelect("h1")
  \/ HIncr("h1")
  \/ HStampTime("h1")
  \/ HStamp("h1")
  \/ HRecord("h1")
  \/ \E o \in Upstreams : HForward("h1", o)
  \/ HStore("h1")
  \/ HReturn("h1")
  \/ HFinish("h1")

SpecPending == InitPending /\ [][NextPending]_vars

\* SpecSplit: one handler thread and the dashboard thread over one primary
\* A, with monitor_interval 60, from the state the process is in SplitIdle
\* seconds after its start: the dashboard's first loop turn is over (the
\* probe gave block 1000 in 20 ms) and a first eth_blockNumber request has
\* been answered by A one second after the start.  config.yaml is then
\* rewritten to name C in the place of A.  The clock is seen again
\* SplitStep seconds later, when the dashboard wakes and both reload
\* throttles (30 s) have run out, while the handler's monitor throttle
\* (60 s since its run at second 101) has not.
SplitReqs == 2
SplitIdle == 29
SplitStep == 31
SplitHorizon == SplitIdle + SplitStep
SplitInterval == 60

CfgSplit ==
  Cfg(<<Ep("A", Absent, Absent)>>, <<>>, SplitInterval, Absent, NoTtl, 2)

CfgMoved ==
  Cfg(<<Ep("C", Absent, Absent)>>, <<>>, SplitInterval, Absent, NoTtl, 2)

SplitProbes == {Probe(TRUE, 1000, 20)}

InitSplit ==
  LET b == build_initial_rpc_list(CfgSplit, <<>>, <<>>)
  IN /\ now = StartTime + SplitIdle
     /\ file = [ok |-> TRUE, cfg |-> CfgSplit]
     /\ edits = 0
     /\ config = CfgSplit
     /\ last_config_snapshot = CfgSplit
     /\ url_weights = build_url_weights(CfgSplit)
     /\ cache_ttl = CfgSplit.cache_ttl
     /\ last_config_file_check = StartTime
     /\ last_status_time = StartTime + 1
     /\ cache = [k \in {} |-> 0]
     /\ robjs = <<>>
     /\ lb_index = 1
     /\ mon_config = CfgSplit
     /\ mon_snapshot = CfgSplit
     /\ last_reload_time = StartTime
     /\ max_behind = CfgSplit.max_blocks_behind
     /\ rpcs = b.rpcs
     /\ objs = [i \in 1..Len(b.objs) |->
                  [b.objs[i] EXCEPT !.latest_block = 1000, !.latency = 20,
                                    !.call_count = 1]]
     /\ deques = [i \in 1..Len(b.deques) |-> <<StartTime + 1>>]
     /\ total_calls = 1
     /\ cached_calls = 0
     /\ pc = [t \in Threads |-> IF t = Dash THEN "dash_sleep" ELSE "idle"]
     /\ req = [t \in Threads |-> NoReq]
     /\ resp = [t \in Threads |-> NoResp]
     /\ hl = [t \in Threads |->
                IF t = Dash THEN [HL0 EXCEPT !.now_l = StartTime] ELSE HL0]
     /\ us = [t \in Threads |-> US0]
     /\ nreqs = 1
     /\ dash_interval = SplitInterval
     /\ dash_wake = StartTime + SplitInterval
     /\ dash_loops = 0
     /\ probe_failures = 0
     /\ g_reads = <<StartTime, StartTime>>
     /\ g_runs = <<StartTime, StartTime + 1>>
     /\ g_sel = <<[idx |-> 0, url |-> "A", cands |-> <<"A">>,
                   weights |-> [u \in {"A"} |-> 1]]>>
     /\ g_store = [k \in {} |-> 0]
     /\ g_pre = [t \in Threads |-> <<>>]
     /\ g_out = [t \in Threads |-> <<>>]

SplitThreads == {"h1", Dash}

NextSplit ==
  \/ \E id \in {2, 3} : StartRequest("h1", BlockNumber(id), 1 + SplitReqs)
  \/ EditFile([ok |-> TRUE, cfg |-> CfgMoved])
  \/ \E t \in SplitThreads : RcCheck(t)
  \/ \E t \in SplitThreads : RcRead(t)
  \/ \E t \in SplitThreads : RcApply(t)
  \/ HThrottle("h1")
  \/ MrCheck(Dash)
  \/ MrApply(Dash)
  \/ \E o \in SplitProbes : UsProbe(Dash, o)
  \/ UsClassify(Dash)
  \/ HLookup("h1")
  \/ HFilter("h1")
  \/ HSelect("h1")
  \/ HIncr("h1")
  \/ HStampTime("h1")
  \/ HStamp("h1")
  \/ HRecord("h1")
  \/ \E o \in Upstreams : HForward("h1", o)
  \/ HStore("h1")
  \/ HReturn("h1")
  \/ HFinish("h1")
  \/ DashWake
  \/ DashRender
  \/ Tick(SplitStep, SplitHorizon)

SpecSplit == InitSplit /\ [][NextSplit]_vars

\* ------------------------------------------------------------------ claims
\* A thread is inside update_statuses.
InUpdateStatuses(t) == pc[t] \in {"mr_check", "mr_apply", "probe", "classify"}

\* C9: at most one run of update_statuses starts in any window of
\* monitor_interval seconds, whoever starts it, and two runs never overlap.
C9_OneRunPerInterval ==
  /\ Cardinality({t \in Threads : InUpdateStatuses(t)}) <= 1
  /\ \/ g_runs[1] = Absent
     \/ g_runs[2] - g_runs[1] >= MonitorInterval(config)

\* C10: two reload checks less than 30 s apart read config.yaml once: any two
\* reads of the file, by reload_config_if_changed or by _reload_config, are
\* at least 30 s apart.
C10_OneReadPer30s ==
  \/ g_reads[1] = Absent
  \/ g_reads[2] - g_reads[1] >= ReloadThrottle

\* The largest block a run's successful probes gave, 0 when none succeeded.
CycleMax(tb) ==
  IF DOMAIN tb = {} THEN 0
  ELSE CHOOSE m \in {tb[u] : u \in DOMAIN tb} : \A u \in DOMAIN tb : tb[u] <= m

\* A step in which thread t returns from update_statuses.
UsReturns(t) == InUpdateStatuses(t) /\ ~InUpdateStatuses(t)'

\* C2: when update_statuses returns, an endpoint is healthy iff the run's
\* probe of it succeeded and it is at most max_blocks_behind behind the
\* largest block the run's successful probes gave.
C2_HealthySetCorrect ==
  [][\A t \in Threads :
       UsReturns(t) =>
         \A i \in 1..Len(rpcs') :
           LET o == objs'[rpcs'[i]]
               tb == us[t].temp_blocks
           IN o.healthy <=> /\ o.url \in DOMAIN tb
                            /\ CycleMax(tb) - o.latest_block <= max_behind']_vars

\* The dict of an endpoint as the run of thread t leaves it, once all its
\* probes are done.
PostCycle(t, id) ==
  IF objs[id].url \in DOMAIN us[t].temp_blocks
  THEN classify([objs[id] EXCEPT !.healthy = TRUE], us[t].temp_blocks,
                us[t].max_block, max_behind)
  ELSE objs[id]

\* C3: a handler that reads the endpoint dicts (get_healthy_rpcs, in the
\* step HFilter) while another thread's run of update_statuses is between its
\* probes and its classification sees each dict either as it was before that
\* run or as the run leaves it.
C3_ClassificationAtomic ==
  [][\A h \in Threads : \A t \in Threads \ {h} :
       (HFilter(h) /\ pc[t] = "classify") =>
         \A i \in us[t].i..Len(us[t].lst) :
           LET id == us[t].lst[i]
           IN objs[id] \in {g_pre[t][id], PostCycle(t, id)}]_vars


\* The timestamps of an endpoint's window that lie in (t - 1, t].
InWindow(ts, t) == Cardinality({k \in 1..Len(ts) : ts[k] > t - TpsWindow /\ ts[k] <= t})

\* C1: at any instant, every endpoint with max_tps > 0 has at most max_tps
\* timestamps in the last second of its window, however many handlers run
\* through the rate-limit check and the append.
C1_RateLimitSound ==
  \A i \in 1..Len(rpcs) :
    LET o == objs[rpcs[i]]
    IN o.max_tps > 0 => InWindow(deques[o.timestamps], now) <= o.max_tps

\* C5: every 200 response of POST / carries the id of the request it
\* answers, also when handlers hit or fill the same cache entry together.
C5_ResponseCarriesRequestId ==
  \A t \in Threads :
    (pc[t] = "done" /\ resp[t].status = 200) => resp[t].body.id = ReqId(req[t])

\* The URLs of one tier of the configuration among the available endpoints.
AvailableOf(t, tier) ==
  {objs[hl[t].available[i]].url : i \in 1..Len(hl[t].available)} \cap UrlsOf(tier)

\* C6: a selection takes a primary whenever a primary is healthy and under
\* its rate limit; it takes a secondary only when no primary is and a
\* secondary is, and then the handler goes on to select without sleeping.
C6_TierPreference ==
  [][\A t \in Threads :
       /\ (HSelect(t) /\ pc'[t] = "incr") =>
            LET url == objs[hl'[t].selected].url
            IN /\ AvailableOf(t, config.primary) # {}
                    => url \in AvailableOf(t, config.primary)
               /\ AvailableOf(t, config.primary) = {}
                    => url \in AvailableOf(t, config.secondary)
       /\ (HFilter(t) /\ hl'[t].available # <<>>) => pc'[t] = "select"]_vars

\* The selections made so far that have also written the counter back.
Completed == Len(g_sel) - Cardinality({t \in Threads : pc[t] = "incr"})

\* C8: no two selections read the same value of the round-robin counter, and
\* the counter has advanced by at least the number of completed selections.
C8_CounterAtomic ==
  /\ \A i, j \in 1..Len(g_sel) : i # j => g_sel[i].idx # g_sel[j].idx
  /\ lb_index >= Completed


\* The selections i..j of the history were made one after the other over
\* one and the same candidate list and weights.
StableWindow(i, j) ==
  \A k \in i..j : /\ g_sel[k].cands = g_sel[i].cands
                  /\ g_sel[k].weights = g_sel[i].weights
                  /\ g_sel[k].idx = g_sel[i].idx + (k - i)

TimesSelected(i, j, url) == Cardinality({k \in i..j : g_sel[k].url = url})

RECURSIVE SumOfWeights(_, _)
SumOfWeights(urls, w) ==
  IF urls = {} THEN 0
  ELSE LET u == CHOOSE u \in urls : TRUE
       IN w[u] + SumOfWeights(urls \ {u}, w)

KeyOf(t) == CacheKey(req[t].method, force_pending(req[t].method, ReqParams(req[t])))
Stored(t) == g_store[KeyOf(t)]
WithoutId(body) == [body EXCEPT !.id = 0]

\* The lookup of thread t is a hit.
IsHit(t) == HLookup(t) /\ pc'[t] = "hit_id"

\* C4 as stated: after a store for (M, P) at t0, with M in cache_ttl, a
\* lookup at t is a hit exactly when t - t0 < ttl[M], and the hit returns the
\* stored response but for its top-level id.
C4_HitIffWithinTtl ==
  [][\A t \in Threads :
       /\ (HLookup(t) /\ req[t].method \in DOMAIN cache_ttl
                      /\ KeyOf(t) \in DOMAIN g_store) =>
            (IsHit(t) <=> now - Stored(t).time < cache_ttl[req[t].method])
       /\ HHitRet(t) =>
            /\ resp'[t].status = 200
            /\ WithoutId(resp'[t].body) = WithoutId(Stored(t).response)]_vars

\* C4, amended: the same, for a store that no reload with an empty cache_ttl
\* has cleared since; a cleared or expired entry is never served.
C4_HitIffWithinTtlUnlessCleared ==
  [][\A t \in Threads :
       /\ (HLookup(t) /\ req[t].method \in DOMAIN cache_ttl
                      /\ KeyOf(t) \in DOMAIN g_store) =>
            /\ ~Stored(t).cleared =>
                 (IsHit(t) <=> now - Stored(t).time < cache_ttl[req[t].method])
            /\ IsHit(t) => /\ ~Stored(t).cleared
                           /\ now - Stored(t).time < cache_ttl[req[t].method]
       /\ (HLookup(t) /\ KeyOf(t) \notin DOMAIN g_store) => ~IsHit(t)
       /\ HHitRet(t) =>
            /\ resp'[t].status = 200
            /\ WithoutId(resp'[t].body) = WithoutId(Stored(t).response)]_vars


\* A hit is about to be returned from an entry stored earlier and not
\* cleared since.
C4_Witness ==
  \E t \in Threads :
    /\ pc[t] = "hit_ret"
    /\ KeyOf(t) \in DOMAIN g_store
    /\ ~Stored(t).cleared
    /\ now > Stored(t).time

\* After the first request, a request went to the secondary B while the
\* primary A was at its rate limit, and a later one went to A again.
C6_Witness ==
  \E i, j \in 2..Len(g_sel) :
    i < j /\ g_sel[i].url = "B" /\ g_sel[j].url = "A"

Appended(url) ==
  Cardinality({k \in 1..Len(g_sel) : g_sel[k].url = url})
  - Cardinality({t \in Threads : /\ pc[t] \in {"incr", "stamp_time", "stamp"}
                                 /\ objs[hl[t].selected].url = url})

\* C11: in every state, which any other thread may read, call_count of every
\* endpoint of the table equals the number of timestamps ever appended to its
\* window: no append is visible without its increment.
C11_CountMatchesAppends ==
  \A i \in 1..Len(rpcs) :
    objs[rpcs[i]].call_count = Appended(objs[rpcs[i]].url)

NonDecreasing(ts) == \A i, j \in 1..Len(ts) : i <= j => ts[i] <= ts[j]

\* C18: every endpoint's window is non-decreasing from oldest to newest in
\* every state, also when several handlers record calls together, and the
\* count of the last second takes no timestamp older than 60 s.
C18_WindowNonDecreasing ==
  /\ \A d \in 1..Len(deques) : NonDecreasing(deques[d])
  /\ \A d \in 1..Len(deques) :
       tps_count(deques[d], now) <=
         Cardinality({i \in 1..Len(deques[d]) : deques[d][i] >= now - PruneWindow})


\* No endpoint of the table is healthy.
NoneHealthy == \A i \in 1..Len(rpcs) : ~objs[rpcs[i]].healthy

\* The id the client sent, 0 when it sent none.
ClientId(t) == IF req[t].id = Absent THEN 0 ELSE req[t].id

\* C12: when a request that was not served from the cache reaches the
\* selection and no endpoint is healthy, the handler answers 500 with error
\* -32000 and the client's id (0 if absent); it makes no outbound call and
\* leaves every endpoint's timestamps and call_count and total_calls as they
\* are, up to the return.
C12_NoHealthyEndpoints ==
  [][\A t \in Threads :
       /\ (HFilter(t) /\ NoneHealthy) =>
            /\ pc'[t] = "done"
            /\ resp'[t] = Resp(500, Body(ClientId(t), "", 0 - 32000))
            /\ g_out'[t] = <<>>
            /\ deques' = deques /\ objs' = objs /\ total_calls' = total_calls
       /\ (HFinish(t) /\ resp[t].body.error = 0 - 32000) =>
            /\ g_out[t] = <<>>
            /\ deques' = deques /\ objs' = objs /\ total_calls' = total_calls]_vars

\* A request without id has been answered with -32000 and id 0 because the
\* one endpoint of the table failed its probe.
C12_Witness ==
  \E t \in Threads :
    /\ pc[t] = "done"
    /\ req[t].id = Absent
    /\ resp[t] = Resp(500, Body(0, "", 0 - 32000))
    /\ Len(rpcs) > 0 /\ NoneHealthy

\* The forwards among the outbound calls of thread t's request.
Forwards(t) ==
  Cardinality({i \in 1..Len(g_out[t]) : g_out[t][i].kind = "forward"})

\* C13: when the forward fails, the handler answers 500 with error -32603
\* and the client's id, stores nothing in the cache for the request, and
\* returns after that one forward without a second attempt.
C13_UpstreamError ==
  [][\A t \in Threads :
       /\ (\E o \in ErrUpstreams : ~o.ok /\ HForward(t, o)) =>
            /\ pc'[t] = "done"
            /\ resp'[t] = Resp(500, Body(ClientId(t), "", 0 - 32603))
            /\ cache' = cache
       /\ (pc[t] = "done" /\ resp[t].body.error = 0 - 32603
                          /\ pc'[t] # pc[t]) =>
            /\ pc'[t] = "idle"
            /\ Forwards(t) = 1
            /\ cache' = cache]_vars

\* The forward of an eth_chainId request, a method of cache_ttl, has failed
\* and the handler has its answer.
C13_Witness ==
  \E t \in Threads :
    /\ pc[t] = "done"
    /\ resp[t].body.error = 0 - 32603
    /\ req[t].method \in DOMAIN cache_ttl
    /\ req[t].id # Absent
    /\ Forwards(t) = 1


\* The request of thread t is a transaction whose params[0] is an object with
\* a from field, and it has been forwarded.
TxForwarded(t) ==
  /\ wants_nonce_check(req[t].method, ReqParams(req[t]))
  /\ Forwards(t) = 1

\* The outbound calls of such a request: the subsidiary call for the pending
\* count of from, then the forward, both to the selected endpoint; the
\* forwarded transaction carries the subsidiary result as its nonce and is
\* otherwise the client's when the result counts, and is the client's when
\* it does not.
NonceRule(t, counts) ==
  LET orig == ReqParams(req[t])
      n == g_out[t][1]
      f == g_out[t][2]
  IN /\ Len(g_out[t]) = 2
     /\ n.kind = "nonce" /\ f.kind = "forward"
     /\ n.method = "eth_getTransactionCount"
     /\ n.params = JList(<<ObjGet(orig.items[1].kv, "from"), JStr("pending")>>)
     /\ n.url = objs[hl[t].selected].url
     /\ f.url = n.url
     /\ f.method = req[t].method
     /\ IF counts
        THEN /\ ObjGet(f.params.items[1].kv, "nonce") = JStr(n.answer.result)
             /\ ObjGet(f.params.items[1].kv, "from")
                  = ObjGet(orig.items[1].kv, "from")
             /\ Len(f.params.items) = Len(orig.items)
             /\ \A i \in 2..Len(orig.items) : f.params.items[i] = orig.items[i]
        ELSE f.params = orig

\* C15 as stated: the forwarded transaction carries the result of the
\* subsidiary eth_getTransactionCount(from, "pending") whenever that call
\* gave a result that is not null, and is the client's own when the call
\* failed or gave no result; both calls go to the selected endpoint.
C15_NonceFromNonNullResult ==
  \A t \in Threads :
    TxForwarded(t) =>
      NonceRule(t, g_out[t][1].answer.ok /\ g_out[t][1].answer.result # "")

\* C15, amended: the same, for a result that is neither null nor empty; with
\* an empty result the transaction is forwarded as the client sent it.
C15_NonceFromNonEmptyResult ==
  \A t \in Threads :
    TxForwarded(t) =>
      NonceRule(t, /\ g_out[t][1].answer.ok
                   /\ g_out[t][1].answer.result \notin {"", EmptyResult})

\* A transaction sent with nonce 0x5 has been forwarded with nonce 0x7, the
\* pending count the endpoint gave.
C15_Witness ==
  \E t \in Threads :
    /\ TxForwarded(t)
    /\ ObjGet(ReqParams(req[t]).items[1].kv, "nonce") = JStr("0x5")
    /\ g_out[t][1].answer = Upstream(TRUE, "0x7")
    /\ ObjGet(g_out[t][2].params.items[1].kv, "nonce") = JStr("0x7")


\* What a reload sets: the snapshots, the weights, cache_ttl, the cache and
\* the endpoint table.
Reloadable ==
  <<config, last_config_snapshot, url_weights, cache_ttl, cache, robjs,
    mon_config, mon_snapshot, max_behind, rpcs, objs, deques>>

\* C20: a reload attempt, of reload_config_if_changed or of _reload_config,
\* that cannot read or parse config.yaml leaves the snapshot, the weights,
\* cache_ttl, the cache and the endpoint table as they are, and its caller
\* goes on: the handler to the monitor throttle, update_statuses to its
\* probes.
C20_ReadErrorChangesNothing ==
  [][\A t \in Threads :
       /\ (RcRead(t) /\ ~file.ok) =>
            /\ UNCHANGED Reloadable
            /\ pc'[t] = IF t = Dash THEN "mr_check"
                        ELSE IF req[t].kind = "status" THEN "status_ret"
                        ELSE "throttle"
       /\ (MrCheck(t) /\ ~file.ok
                      /\ now - last_reload_time >= MonReloadThrottle) =>
            /\ UNCHANGED Reloadable
            /\ pc'[t] = IF Len(rpcs) = 0 THEN UsReturn(t) ELSE "probe"]_vars

\* The first request of the process found config.yaml unreadable, at line
\* 93 and again at line 91 of the monitor, and has been answered with 200.
C20_Witness ==
  \E t \in Threads :
    /\ ~file.ok
    /\ nreqs = 1
    /\ g_reads = <<now, now>>
    /\ pc[t] = "done"
    /\ resp[t].status = 200
    /\ config = CfgErr


\* C19: a reload that takes a configuration whose cache_ttl is empty or
\* missing leaves the cache empty, and no request is served afterwards from
\* an entry stored before it; a reload that takes a configuration whose
\* cache_ttl is not empty leaves every entry in the cache.
C19_CacheAcrossReload ==
  [][\A t \in Threads :
       /\ (RcApply(t) /\ hl[t].new_cfg # last_config_snapshot) =>
            IF DOMAIN hl[t].new_cfg.cache_ttl = {}
            THEN DOMAIN cache' = {}
            ELSE cache' = cache
       /\ HHitRet(t) => ~Stored(t).cleared]_vars

\* A request for a method of cache_ttl finds no entry, within the TTL of a
\* response that was stored before a reload with an empty cache_ttl.
C19_Witness ==
  \E t \in Threads :
    /\ pc[t] = "filter"
    /\ req[t].method \in DOMAIN cache_ttl
    /\ KeyOf(t) \in DOMAIN g_store
    /\ Stored(t).cleared
    /\ now - Stored(t).time < cache_ttl[req[t].method]
    /\ KeyOf(t) \notin DOMAIN cache



\* The dict of the table for this URL.
RecordOf(lst, os, u) ==
  os[lst[CHOOSE i \in 1..Len(lst) : os[lst[i]].url = u]]

\* C14: a reload by _reload_config keeps, for every URL of the table before
\* and after it, the timestamps, call_count and latest_block of its record,
\* whether the table is rebuilt or not; when the URL set stays, the reload
\* sets max_tps from the new configuration and leaves healthy, behind,
\* latency and errors as they are.  The reload of main.py, which sets the
\* weights, leaves the table alone.
C14_ReloadPreservesHistory ==
  [][\A t \in Threads :
       /\ (MrApply(t) /\ us[t].new_cfg # mon_snapshot) =>
            /\ TableUrls(rpcs', objs') = UrlsOf(Endpoints(us[t].new_cfg))
            /\ \A u \in TableUrls(rpcs, objs) \cap TableUrls(rpcs', objs') :
                 LET old == RecordOf(rpcs, objs, u)
                     new == RecordOf(rpcs', objs', u)
                 IN /\ new.timestamps = old.timestamps
                    /\ deques'[new.timestamps] = deques[old.timestamps]
                    /\ new.call_count = old.call_count
                    /\ new.latest_block = old.latest_block
                    /\ new.max_tps = IncomingMaxTps(us[t].new_cfg, u)
                    /\ TableUrls(rpcs', objs') = TableUrls(rpcs, objs) =>
                         /\ new.healthy = old.healthy
                         /\ new.behind = old.behind
                         /\ new.latency = old.latency
                         /\ new.errors = old.errors
       /\ RcApply(t) =>
            /\ UNCHANGED <<rpcs, objs, deques>>
            /\ hl[t].new_cfg # last_config_snapshot =>
                 url_weights' = build_url_weights(hl[t].new_cfg)]_vars

\* The table has been rebuilt for the URLs A and C, and A's record has the
\* call, the timestamp and the block it had.
C14_Witness ==
  /\ TableUrls(rpcs, objs) = {"A", "C"}
  /\ pc["h1"] = "probe"
  /\ us["h1"].i = 1
  /\ RecordOf(rpcs, objs, "A").call_count >= 1
  /\ deques[RecordOf(rpcs, objs, "A").timestamps] # <<>>
  /\ RecordOf(rpcs, objs, "A").latest_block > 0

\* I2 of a record, for the threshold maxb.
BehindAgrees(o, maxb) ==
  IF o.healthy THEN o.behind # Inf /\ o.behind <= maxb ELSE o.behind = Inf

\* I2 of the table.
TableAgrees ==
  \A i \in 1..Len(rpcs) : BehindAgrees(objs[rpcs[i]], max_behind)

\* A step in which thread t rebuilds the table.
Rebuilds(t) ==
  /\ MrApply(t)
  /\ us[t].new_cfg # mon_snapshot
  /\ UrlsOf(Endpoints(us[t].new_cfg)) # TableUrls(rpcs, objs)

\* C17: at startup, and in the state a completed run of update_statuses or a
\* rebuild of the table leaves, every endpoint that is not healthy has
\* behind = infinity and every healthy endpoint has
\* behind <= max_blocks_behind.
C17_BehindAgreesAfterCycle ==
  /\ TableAgrees
  /\ [][\A t \in Threads : (UsReturns(t) \/ Rebuilds(t)) => TableAgrees']_vars


\* Every healthy endpoint has a limit and max_tps timestamps or more in the
\* last second.
AllAtLimit ==
  \A i \in 1..Len(rpcs) :
    LET o == objs[rpcs[i]]
        ts == deques[o.timestamps]
    IN o.healthy =>
         /\ o.max_tps > 0
         /\ Cardinality({k \in 1..Len(ts) : ts[k] >= now - TpsWindow}) >= o.max_tps

\* C16: a request that finds every healthy endpoint at its limit is not
\* answered but sleeps; with the endpoints healthy, the clock advancing and
\* finitely many requests, every request that sleeps is selected and
\* forwarded in the end.
C16_DeferralIsLive ==
  /\ [][\A t \in Threads :
          (HFilter(t) /\ ~NoneHealthy /\ AllAtLimit) =>
            /\ pc'[t] = "sleep"
            /\ resp'[t] = resp[t]]_vars
  /\ \A t \in LiveThreads : (pc[t] = "sleep") ~> (Forwards(t) = 1)

\* A with max_tps 2: of three requests two were selected in the same second,
\* the third slept and was selected two seconds later, and all three have
\* their answers.
C16_Witness ==
  /\ \A t \in LiveThreads : pc[t] = "done" /\ resp[t].status = 200
  /\ Len(g_sel) = 4
  /\ deques[objs[rpcs[1]].timestamps] =
       <<StartTime, StartTime + LiveIdle, StartTime + LiveIdle,
         StartTime + LiveIdle + 2>>

\* Line 237: the params that the rewrite applies to.
Rewritable(params) == params.t = "list" /\ Len(params.items) >= 1

\* params is [orig[0], "pending"]: two elements, the second "pending", the
\* first the one the client sent when it sent one.
PendingOf(params, orig) ==
  /\ params.t = "list"
  /\ Len(params.items) = 2
  /\ params.items[2] = JStr("pending")
  /\ Rewritable(orig) => params.items[1] = orig.items[1]

\* What a step of thread t does with the params of its request: the lookup
\* keeps params that are PendingOf the client's and serves a hit from the
\* entry under their key, the forward sends them, the store puts the answer
\* under their key, and rewriting them again changes nothing.
PendingStep(t) ==
  LET m == req[t].method
      orig == ReqParams(req[t])
  IN /\ HLookup(t) =>
          /\ PendingOf(hl'[t].params, orig)
          /\ force_pending(m, hl'[t].params) = hl'[t].params
          /\ pc'[t] = "hit_id" =>
               /\ CacheKey(m, hl'[t].params) \in DOMAIN cache
               /\ hl'[t].entry = cache[CacheKey(m, hl'[t].params)].response
     /\ (\E o \in Upstreams : HForward(t, o)) =>
          /\ PendingOf(g_out'[t][Len(g_out'[t])].params, orig)
          /\ g_out'[t][Len(g_out'[t])].method = m
     /\ HStore(t) =>
          \E q \in DOMAIN cache' :
            /\ q[1] = m
            /\ PendingOf(q[2], orig)
            /\ cache'[q].response = Len(robjs')
            /\ \A k \in DOMAIN cache' \ {q} :
                 k \in DOMAIN cache /\ cache'[k] = cache[k]

IsGetCount(t) == req[t].method = "eth_getTransactionCount"

VerbatimStep(t) ==
  LET orig == ReqParams(req[t])
  IN /\ HLookup(t) => hl'[t].params = orig
     /\ (\E o \in Upstreams : HForward(t, o)) =>
          g_out'[t][Len(g_out'[t])].params = orig

RecordsNothing ==
  /\ deques' = deques
  /\ total_calls' = total_calls
  /\ Len(objs') = Len(objs)
  /\ \A i \in 1..Len(objs) : objs'[i].call_count = objs[i].call_count

\* The endpoints of the table that have the URL thread t selected.
SelectedInTable(t) ==
  {rpcs[i] : i \in {k \in 1..Len(rpcs) : objs[rpcs[k]].url = hl[t].selected_url}}

\* C22: a request served from the cache records nothing and adds one to
\* cached_calls; a request that is forwarded puts one timestamp and one
\* call_count on the endpoint of the table it selected and adds one to
\* total_calls, and these are there when it sends; neither the subsidiary
\* nonce call nor the forward itself records anything.
C22_CallRecording ==
  [][\A t \in Threads :
       /\ (HLookup(t) /\ pc'[t] = "hit_id") =>
            /\ cached_calls' = cached_calls + 1
            /\ RecordsNothing
            /\ g_out'[t] = <<>>
       /\ (HHitId(t) \/ HHitRet(t)) =>
            /\ cached_calls' = cached_calls
            /\ RecordsNothing
            /\ g_out'[t] = <<>>
       /\ HStamp(t) =>
            /\ \E id \in SelectedInTable(t) :
                 /\ deques'[objs[id].timestamps] =
                      Append(deques[objs[id].timestamps], hl[t].stamp)
                 /\ \A d \in 1..Len(deques) :
                      d # objs[id].timestamps => deques'[d] = deques[d]
            /\ total_calls' = total_calls
            /\ g_out[t] = <<>>
       /\ HRecord(t) =>
            /\ total_calls' = total_calls + 1
            /\ \E id \in SelectedInTable(t) :
                 /\ objs'[id].call_count = objs[id].call_count + 1
                 /\ \A i \in 1..Len(objs) :
                      i # id => objs'[i].call_count = objs[i].call_count
            /\ deques' = deques
            /\ g_out[t] = <<>>
       /\ (\E o \in ErrUpstreams : HNonce(t, o)) => RecordsNothing
       /\ (\E o \in ErrUpstreams \cup Upstreams : HForward(t, o)) =>
            /\ RecordsNothing
            /\ Forwards(t) = 0
            /\ \E id \in SelectedInTable(t) :
                 /\ \E k \in 1..Len(deques[objs[id].timestamps]) :
                      deques[objs[id].timestamps][k] = hl[t].stamp
                 /\ objs[id].call_count >= 1
            /\ total_calls >= 1]_vars

\* C23: whenever the rate-limit filter leaves endpoints, the tier split, the
\* weights and the latency filter leave a candidate, and the handler goes on
\* with one of the endpoints the filter left without failing.
C23_SelectionTotal ==
  [][\A t \in Threads :
       (HSelect(t) /\ hl[t].available # <<>>) =>
         /\ pc'[t] = "incr"
         /\ resp'[t] = resp[t]
         /\ \E i \in 1..Len(hl[t].available) :
              hl'[t].selected = hl[t].available[i]]_vars


====
